---- MODULE Spec2Model ----
(***************************************************************************)
(* Verification model of the personal knowledge platform: the ingestion    *)
(* pipeline (DocumentProcessor, graph bundle writer, dedup indices, vector *)
(* tables), the retrieval orchestrator with its result cache, the model    *)
(* registry with the memory guard, and the ingest queue worker.            *)
(***************************************************************************)
EXTENDS Integers, Sequences, FiniteSets, TLC

VARIABLES
    \* ---- stores shared by the ingestion pipeline ----
    gNodes,        \* graph store: set of <<label, id>>
    gEdges,        \* graph store: set of <<type, <<label, id>>, <<label, id>>>>
    gProps,        \* graph store: set of <<node, props>>, Document and File nodes
    gBlockVector,  \* ids of Block nodes whose text_vector property is set
    vectors,       \* vector store: set of rows [table, id, doc_id]
    kvHash,        \* KV hashes: [dedupe:simhash | dedupe:phash -> set of <<sha256, value>>]
    objects,       \* object store: set of <<object_name, content>>
    \* ---- DocumentProcessor.process() calls ----
    call,          \* caller -> locals of its process() call (pc, payload, lists)
    hist,          \* history: calls started, snapshots taken at call boundaries
    \* ---- retrieval orchestrator ----
    kvStr,         \* KV string keys: cache_key -> JSON value, or Absent
    rq,            \* the in-flight retrieve() call
    rhist,         \* history of finished retrieve() calls
    \* ---- model registry and memory guard ----
    locks,         \* ModelManager._locks: name -> holder, or Free
    waiters,       \* callers queued on a lock, FIFO
    models,        \* ModelManager._models: name -> <<handle>>, or <<>>
    mm,            \* caller -> locals of its get_or_load() call
    memory,        \* what MemoryGuard.snapshot() reads now
    mhist,         \* history: loader invocations per name
    \* ---- ingest queue worker ----
    kvList,        \* KV list ingest:documents (head = left end)
    wk,            \* the queue worker's position and job
    whist,         \* history: jobs enqueued, passed to process(), failed
    \* ---- the key-value server ----
    kvUp,          \* TRUE while the server answers; FALSE during an outage
    \* ---- connector runs (WorkerOrchestrator.start, the interval scheduler) ----
    cn,            \* connector name -> the run start() created, the scheduler's job
    \* ---- two overlapping process() calls ----
    pair,          \* history: the stores before the calls, their payloads, how they ended
    \* ---- embedding and rerank services ----
    rr,            \* locals of the RerankerService.rerank() call
    em,            \* locals of the TextEmbeddingService.embed() call
    \* ---- query planner ----
    qp,            \* the plan() call: its query and what it returned
    \* ---- connector checkpoints and sync() runs ----
    ck,            \* KV string key connector:{name}:state -> <<state>>, or <<>>
    sy             \* the _run_connector run: mailbox, locals of sync(), history

ingestVars == <<gNodes, gEdges, gProps, gBlockVector, vectors, kvHash, objects, call, hist>>
retrVars == <<kvStr, rq, rhist>>
mmVars == <<locks, waiters, models, mm, memory, mhist>>
queueVars == <<kvList, wk, whist>>
connVars == <<cn, pair>>
svcVars == <<rr, em, qp, ck, sy>>
vars == <<ingestVars, retrVars, mmVars, queueVars, kvUp, connVars, svcVars>>
notIngest == <<retrVars, mmVars, queueVars, kvUp, connVars, svcVars>>
notRetr == <<ingestVars, mmVars, queueVars, kvUp, connVars, svcVars>>
notMM == <<ingestVars, retrVars, queueVars, kvUp, connVars, svcVars>>
notQueue == <<ingestVars, retrVars, mmVars, kvUp, connVars, svcVars>>
notConn == <<ingestVars, retrVars, mmVars, kvUp, svcVars>>
notSvc == <<ingestVars, retrVars, mmVars, queueVars, kvUp, connVars>>

----------------------------------------------------------------------------
\* Generic helpers

Range(s) == {s[i] : i \in 1..Len(s)}

RECURSIVE SeqSum(_)
SeqSum(s) == IF s = <<>> THEN 0 ELSE Head(s) + SeqSum(Tail(s))

Max2(a, b) == IF a >= b THEN a ELSE b

----------------------------------------------------------------------------
\* apps/workers/processors/dedup.py

\* bin(a ^ b).count("1") on non-negative integers
RECURSIVE hamming_distance(_, _)
hamming_distance(a, b) ==
    IF a = 0 /\ b = 0 THEN 0
    ELSE (IF a % 2 # b % 2 THEN 1 ELSE 0) + hamming_distance(a \div 2, b \div 2)

\* str(simhash_value): the decimal digits of a non-negative integer
RECURSIVE DecDigits(_)
DecDigits(n) == IF n < 10 THEN <<n>> ELSE Append(DecDigits(n \div 10), n % 10)

\* int(value) on a decimal digit string
RECURSIVE ParseDec(_)
ParseDec(s) ==
    IF Len(s) = 0 THEN 0
    ELSE 10 * ParseDec(SubSeq(s, 1, Len(s) - 1)) + s[Len(s)]

\* int(value, 16) on a hex digit string (digits as numbers 0..15)
RECURSIVE ParseHex(_)
ParseHex(s) ==
    IF Len(s) = 0 THEN 0
    ELSE 16 * ParseHex(SubSeq(s, 1, Len(s) - 1)) + s[Len(s)]

\* The 64-bit shingle fingerprints of the texts of the model. Simhash(text).value
\* is a library function of the text; the table fixes it for the texts used here.
\* tB is 3 bits from tA, tC is 4 bits from tA, the empty text hashes to 0.
SimhashTable ==
    [t \in {"tA", "tB", "tC", "tD", ""} |->
        CASE t = "tA" -> 1073741824 + 96
          [] t = "tB" -> 1073741824 + 96 + 7
          [] t = "tC" -> 1073741824 + 96 + 15
          [] t = "tD" -> 255
          [] OTHER -> 0]

compute_simhash(text) == SimhashTable[text]

compute_sha256(content) == "sha256(" \o content \o ")"

\* str(phash(img)): 16 hex digits, here as a sequence of numbers 0..15; <<>> is None
phashImg1 == <<0,0,0,0, 0,0,0,0, 0,0,0,0, 15,0,10,1>>
phashImg2 == <<0,0,0,0, 0,0,0,0, 0,0,0,0, 15,0,10,14>>

----------------------------------------------------------------------------
\* The ingest payloads of the model (spec section 6, "Ingest payload shape").
\* A file descriptor carries what the processor reads from the file on disk:
\* its name and suffix, its bytes (content), and what the extractor of its MIME
\* family returns for it (text for text / image OCR / audio transcription,
\* pdf_pages for a PDF).

None == "None"

File(uri, name, suffix, content, mime, text, pdf_pages, ph) ==
    [uri |-> uri, name |-> name, suffix |-> suffix, content |-> content,
     mime_type |-> mime, text |-> text, pdf_pages |-> pdf_pages, phash |-> ph]

fA == File("/in/a.md", "a.md", ".md", "cA", "text/markdown", "tA", <<>>, <<>>)
fB == File("/in/b.txt", "b.txt", ".txt", "cB", "text/plain", "tB", <<>>, <<>>)
fC == File("/in/c.pdf", "c.pdf", ".pdf", "cC", "application/pdf", "", <<"tC", "">>, <<>>)
fAu == File("/in/talk.mp3", "talk.mp3", ".mp3", "cAu", "audio/mpeg", "tD", <<>>, <<>>)
fImg1 == File("/in/p1.png", "p1.png", ".png", "cI1", "image/png", "", <<>>, phashImg1)
fImg2 == File("/in/p2.png", "p2.png", ".png", "cI2", "image/png", "tD", <<>>, phashImg2)

Doc(doc_id, version, source) == [doc_id |-> doc_id, version |-> version, source |-> source]

NoEntities == [people |-> <<>>, organizations |-> <<>>, projects |-> <<>>,
               places |-> <<>>, events |-> <<>>]

Payload(document, files, block, email, image, entities, relationships) ==
    [document |-> document, files |-> files, block |-> block, email |-> email,
     image |-> image, entities |-> entities, relationships |-> relationships]

\* the shape the unit test and the seed script use: one markdown file, a project
pA == Payload(Doc("d:1", 1, "seed"), <<fA>>, <<>>, <<>>, <<>>,
              [NoEntities EXCEPT !.projects = <<"Project Alpha">>], <<>>)
\* a near-duplicate text of pA's file, declared as the next version of d:1
pB == Payload(Doc("d:2", 1, "seed"), <<fB>>, <<>>, <<>>, <<>>, NoEntities,
              <<[source_id |-> "d:2", target_id |-> "d:1", type |-> "VERSION_CHAIN"]>>)
\* the shape the file connectors yield: block_id = doc_id, no page_id
pC == Payload(Doc("d:3", 1, "local_filesystem"), <<fC>>,
              <<[block_id |-> "d:3", block_type |-> "file_text", text_content |-> "tC",
                 page_id |-> None]>>, <<>>, <<>>, NoEntities, <<>>)
pAu == Payload(Doc("d:4", 1, "drive"), <<fAu>>, <<>>, <<>>, <<>>, NoEntities, <<>>)
\* two images of one document, with the Image side-facet
pImg == Payload(Doc("d:5", 1, "photos"), <<fImg1, fImg2>>, <<>>, <<>>,
                <<[image_id |-> "img:1"]>>, NoEntities, <<>>)
\* a mail without files: the message block names a page, sender and a recipient
pMail == Payload(Doc("d:6", 1, "gmail"), <<>>,
                 <<[block_id |-> "d:6", block_type |-> "message", text_content |-> "tA",
                    page_id |-> "d:1::page::0"]>>,
                 <<[message_id |-> "m:1", sender |-> "Alice@Example.com",
                    recipients |-> <<"bob@example.com">>]>>,
                 <<>>, [NoEntities EXCEPT !.people = <<"alice@example.com">>], <<>>)

Payloads == {pA, pB, pC, pAu, pImg, pMail}

\* the number of process() calls of one behaviour
MaxCalls == 3

----------------------------------------------------------------------------
\* core/graph/queries.py: the Cypher statements, as functions of a graph
\* g = [nodes |-> set of <<label, id>>, edges |-> set of <<type, src, dst>>,
\* props |-> set of <<node, properties>>].

Node(label, id) == <<label, id>>
Edge(type, src, dst) == <<type, src, dst>>

\* MERGE (n:Label {key: $id}) SET n += $props
MergeNode(g, label, id) == [g EXCEPT !.nodes = @ \cup {Node(label, id)}]

\* SET n += $props: every key of $props is written, whatever the node held;
\* the payloads of one label carry the same keys
SetProps(ps, node, props) == {e \in ps : e[1] # node} \cup {<<node, props>>}

MergeNodeProps(g, label, id, props) ==
    [MergeNode(g, label, id) EXCEPT !.props = SetProps(@, Node(label, id), props)]

\* MATCH (a) MATCH (b) MERGE (a)-[:TYPE]->(b): nothing when either MATCH is empty
MatchMergeEdge(g, type, src, dst) ==
    IF src \in g.nodes /\ dst \in g.nodes
    THEN [g EXCEPT !.edges = @ \cup {Edge(type, src, dst)}]
    ELSE g

upsert_document(g, doc_id, props) == MergeNodeProps(g, "Document", doc_id, props)
upsert_file(g, sha256, props) == MergeNodeProps(g, "File", sha256, props)
upsert_page(g, page_id) == MergeNode(g, "Page", page_id)
upsert_block(g, block_id) == MergeNode(g, "Block", block_id)

link_document_file(g, doc_id, sha256) ==
    MatchMergeEdge(g, "HAS_FILE", Node("Document", doc_id), Node("File", sha256))

link_page_document(g, page_id, doc_id) ==
    MatchMergeEdge(g, "BELONGS_TO", Node("Page", page_id), Node("Document", doc_id))

\* a page_id of None matches no Page
link_block_page(g, block_id, page_id) ==
    MatchMergeEdge(g, "CHILD_OF", Node("Block", block_id), Node("Page", page_id))

\* MATCH (src {doc_id: ..}) MATCH (dst {doc_id: ..}) MERGE (src)-[:VERSION_CHAIN]->(dst):
\* the nodes that carry a doc_id property are the Documents; the edge type is
\* fixed by the query text, rel.type is not read
create_document_relationships(g, rel) ==
    MatchMergeEdge(g, "VERSION_CHAIN", Node("Document", rel.source_id),
                   Node("Document", rel.target_id))

link_files_near_duplicate(g, source_sha, target_sha) ==
    MatchMergeEdge(g, "NEAR_DUPLICATE", Node("File", source_sha), Node("File", target_sha))

link_email_document(g, message_id, doc_id) ==
    MatchMergeEdge(g, "ATTACHMENT", Node("Email", message_id), Node("Document", doc_id))

\* f"MERGE (e)-[:{rel_type.upper()}]->(p)"
RelUpper(rel_type) ==
    CASE rel_type = "sent_by" -> "SENT_BY"
      [] rel_type = "received_by" -> "RECEIVED_BY"

link_email_person(g, message_id, person_id, relation) ==
    MatchMergeEdge(g, RelUpper(relation), Node("Email", message_id), Node("Person", person_id))

link_image_file(g, image_id, sha256) ==
    MatchMergeEdge(g, "DERIVED_FROM", Node("Image", image_id), Node("File", sha256))

link_audio_transcript(g, audio_id, transcript_id) ==
    MatchMergeEdge(g, "HAS_TRANSCRIPT", Node("Audio", audio_id), Node("Transcript", transcript_id))

----------------------------------------------------------------------------
\* core/graph/client.py: ingest_document_bundle builds the statement list and
\* run_in_transaction runs it in one managed write transaction.

Stmt(op, a, b) == [op |-> op, a |-> a, b |-> b]

RECURSIVE FileStmts(_, _)
FileStmts(doc_id, files) ==
    IF files = <<>> THEN <<>>
    ELSE <<Stmt("upsert_file", Head(files).sha256, Head(files)),
           Stmt("link_document_file", doc_id, Head(files).sha256)>>
         \o FileStmts(doc_id, Tail(files))

RECURSIVE PageStmts(_, _)
PageStmts(doc_id, pages) ==
    IF pages = <<>> THEN <<>>
    ELSE <<Stmt("upsert_page", Head(pages).page_id, None),
           Stmt("link_page_document", Head(pages).page_id, doc_id)>>
         \o PageStmts(doc_id, Tail(pages))

RECURSIVE BlockStmts(_)
BlockStmts(blocks) ==
    IF blocks = <<>> THEN <<>>
    ELSE <<Stmt("upsert_block", Head(blocks).block_id, None),
           Stmt("link_block_page", Head(blocks).block_id, Head(blocks).page_id)>>
         \o BlockStmts(Tail(blocks))

RECURSIVE RelStmts(_)
RelStmts(rels) ==
    IF rels = <<>> THEN <<>>
    ELSE <<Stmt("create_document_relationships", Head(rels).source_id, Head(rels).target_id)>>
         \o RelStmts(Tail(rels))

BundleStatements(document, files, pages, blocks, relationships) ==
    <<Stmt("upsert_document", document.doc_id, document)>>
    \o FileStmts(document.doc_id, files)
    \o PageStmts(document.doc_id, pages)
    \o BlockStmts(blocks)
    \o RelStmts(relationships)

\* tx.run(cypher, params) of one statement
RunStatement(g, st) ==
    CASE st.op = "upsert_document" -> upsert_document(g, st.a, st.b)
      [] st.op = "upsert_file" -> upsert_file(g, st.a, st.b)
      [] st.op = "link_document_file" -> link_document_file(g, st.a, st.b)
      [] st.op = "upsert_page" -> upsert_page(g, st.a)
      [] st.op = "link_page_document" -> link_page_document(g, st.a, st.b)
      [] st.op = "upsert_block" -> upsert_block(g, st.a)
      [] st.op = "link_block_page" -> link_block_page(g, st.a, st.b)
      [] st.op = "create_document_relationships" ->
            create_document_relationships(g, [source_id |-> st.a, target_id |-> st.b])

RECURSIVE RunStatements(_, _)
RunStatements(g, stmts) ==
    IF stmts = <<>> THEN g
    ELSE RunStatements(RunStatement(g, Head(stmts)), Tail(stmts))

----------------------------------------------------------------------------
\* apps/workers/processors/document_processor.py: helpers of process()

\* str.startswith on the MIME types of the model
MimePrefix(m) ==
    CASE m \in {"text/markdown", "text/plain"} -> "text/"
      [] m \in {"image/png"} -> "image/"
      [] m \in {"audio/mpeg"} -> "audio/"
      [] OTHER -> "application/"

\* document['doc_id'].replace(':', '_') on the doc ids of the model
Sanitized(doc_id) ==
    CASE doc_id = "d:1" -> "d_1" [] doc_id = "d:2" -> "d_2" [] doc_id = "d:3" -> "d_3"
      [] doc_id = "d:4" -> "d_4" [] doc_id = "d:5" -> "d_5" [] doc_id = "d:6" -> "d_6"
      [] doc_id = "d:7" -> "d_7" [] doc_id = "d:8" -> "d_8" [] doc_id = "d:9" -> "d_9"
      [] OTHER -> doc_id

\* identifier.lower() on the identifiers of the model
Lower(s) ==
    CASE s = "Alice@Example.com" -> "alice@example.com"
      [] s = "Project Alpha" -> "project alpha"
      [] s = "ALICE@EXAMPLE.COM" -> "alice@example.com"
      [] s = "Weiß@example.com" -> "weiß@example.com"
      [] s = "WEISS@EXAMPLE.COM" -> "weiss@example.com"
      [] OTHER -> s

\* f"{kind}:{hashlib.sha256(identifier.lower().encode()).hexdigest()[:16]}"
EntityId(kind, identifier) == kind \o ":h(" \o Lower(identifier) \o ")"
\* an id taken from the identifier as given
person_id_AsGiven(identifier) == "person:h(" \o identifier \o ")"

person_id(identifier) == EntityId("person", identifier)

\* Python truthiness of an Optional[str]
Truthy(text) == text \notin {"", None}

\* apps/workers/processors/text_processor.py
extract_text_from_file(f) ==
    IF MimePrefix(f.mime_type) = "text/" THEN f.text
    ELSE IF f.mime_type \in {"application/json", "application/xml", "application/xhtml+xml"}
         THEN f.text
    ELSE IF f.suffix \in {".md", ".txt", ".csv"} THEN f.text
    ELSE None

\* which branch of the if / elif chain of the file loop a file takes
Branch(f) ==
    IF \/ MimePrefix(f.mime_type) = "text/"
       \/ f.mime_type \in {"application/json", "application/xml"}
       \/ f.suffix \in {".md", ".txt", ".csv", ".log"} THEN "text"
    ELSE IF f.mime_type = "application/pdf" THEN "pdf"
    ELSE IF MimePrefix(f.mime_type) = "image/" THEN "image"
    ELSE IF MimePrefix(f.mime_type) = "audio/" THEN "audio"
    ELSE "none"

PageId(doc_id, index) == doc_id \o "::page::" \o ToString(index)

BlockNode(block_id, block_type, text, page_id) ==
    [block_id |-> block_id, block_type |-> block_type, text_content |-> text,
     page_id |-> page_id]

BlockRecord(block_id, text, page_id, uri, mime_type) ==
    [block_id |-> block_id, text |-> text, page_id |-> page_id, uri |-> uri,
     mime_type |-> mime_type]

\* the blocks of a PDF: one per extracted page, block ids {page_id}#block#{k}
RECURSIVE PdfBlocks(_, _, _)
PdfBlocks(page_id, texts, k) ==
    IF texts = <<>> THEN <<>>
    ELSE <<BlockNode(page_id \o "#block#" \o ToString(k), "pdf_page", Head(texts), page_id)>>
         \o PdfBlocks(page_id, Tail(texts), k + 1)

RECURSIVE ToBlockRecords(_, _, _)
ToBlockRecords(blocks, uri, mime_type) ==
    IF blocks = <<>> THEN <<>>
    ELSE <<BlockRecord(Head(blocks).block_id, Head(blocks).text_content,
                       Head(blocks).page_id, uri, mime_type)>>
         \o ToBlockRecords(Tail(blocks), uri, mime_type)

\* _handle_simhash_duplicates returns at once for a fingerprint of 0
IsNonZeroSimhash(text) == compute_simhash(text) # 0
SimhashTodo(texts) == SelectSeq(texts, IsNonZeroSimhash)

\* a write that stores the hash as a whole, with the one field
HSet_WholeHash(h, field, value) == {<<field, value>>}

\* HSET key field value: last writer wins per field
HSet(h, field, value) == {e \in h : e[1] # field} \cup {<<field, value>>}

\* merge_insert(on = "id") of rows into a table: one row per (table, id)
upsert_vectors(vs, table, rows) ==
    {v \in vs : ~(v.table = table /\ \E r \in Range(rows) : r.id = v.id)}
    \cup {[table |-> table, id |-> r.id, doc_id |-> r.doc_id] : r \in Range(rows)}

\* the locals of a process() call; log is history, the kinds of the writes the
\* call has issued since the bundle: "bundle", "vector", "facet"
IdleCall ==
    [pc |-> "idle", payload |-> <<>>, idx |-> 0, file_records |-> <<>>, pages |-> <<>>,
     blocks |-> <<>>, block_vectors |-> <<>>, image_embeddings |-> <<>>,
     transcript_records |-> <<>>, audio_nodes |-> <<>>, page_texts |-> <<>>,
     todo |-> <<>>, txpos |-> 0, failedAt |-> "none", log |-> <<>>]

Graph == [nodes |-> gNodes, edges |-> gEdges, props |-> gProps]
Snapshot == [nodes |-> gNodes, edges |-> gEdges, vectors |-> vectors, kv |-> kvHash]

\* block.text truthy: the rows _persist_vectors embeds and upserts
IsTextRecord(b) == Truthy(b.text)
TextRecords(block_vectors) == SelectSeq(block_vectors, IsTextRecord)

\* the stages of process() after the bundle commit, in program order, and
\* whether a call with locals l runs them
\* an order that writes the side facets before the vector tables
Stages_FacetsFirst ==
    <<"email", "image", "transcripts", "audio", "entities", "persist_embed",
      "set_block_vector", "upsert_documents", "upsert_images", "done">>

Stages == <<"persist_embed", "set_block_vector", "upsert_documents", "upsert_images",
            "email", "image", "transcripts", "audio", "entities", "done">>

Applicable(l, stage) ==
    CASE stage \in {"persist_embed", "set_block_vector", "upsert_documents"} ->
            TextRecords(l.block_vectors) # <<>>
      [] stage = "upsert_images" -> l.image_embeddings # <<>>
      [] stage = "email" -> l.payload[1].email # <<>>
      [] stage = "image" -> l.payload[1].image # <<>>
      [] stage = "transcripts" -> l.transcript_records # <<>>
      [] stage = "audio" -> l.audio_nodes # <<>>
      [] stage = "entities" -> l.payload[1].entities # NoEntities
      [] OTHER -> TRUE

RECURSIVE StageFrom(_, _)
StageFrom(l, i) ==
    IF i >= Len(Stages) THEN "done"
    ELSE IF Applicable(l, Stages[i]) THEN Stages[i] ELSE StageFrom(l, i + 1)

StageIndex(stage) == CHOOSE i \in 1..Len(Stages) : Stages[i] = stage
NextStage(l, stage) == StageFrom(l, StageIndex(stage) + 1)

----------------------------------------------------------------------------
\* DocumentProcessor.process(): one action per await of the coroutine. A call c
\* is at call[c].pc; the stores change only where the code writes them.

SimhashThreshold == 3
PhashThreshold == 6

L(c) == call[c]
P(c) == call[c].payload[1]
CurFile(c) == P(c).files[call[c].idx]
CurRecord(c) == call[c].file_records[call[c].idx]
CurPageId(c) == PageId(P(c).document.doc_id, call[c].idx - 1)

SetCall(c, l) == call' = [call EXCEPT ![c] = l]

\* process() is entered with a payload
process(c, p) ==
    /\ L(c).pc = "idle"
    /\ hist.started < MaxCalls
    /\ SetCall(c, [IdleCall EXCEPT !.pc = IF p.files = <<>> THEN "block" ELSE "upload",
                                   !.payload = <<p>>, !.idx = 1])
    /\ hist' = [hist EXCEPT !.started = @ + 1, !.atStart[c] = Snapshot]
    /\ UNCHANGED <<gNodes, gEdges, gProps, gBlockVector, vectors, kvHash, objects>>

\* a process() call made directly (a test, a script), not by the queue worker
ProcStart(c, p) == process(c, p) /\ UNCHANGED notIngest

\* lines 61-78: resolve the file, hash it, upload it, build file_record
ObjectName(document, f) == Sanitized(document.doc_id) \o "/" \o f.name

FileRecord(document, f) ==
    [sha256 |-> compute_sha256(f.content),
     uri |-> "minio/bucket/" \o ObjectName(document, f),
     mime_type |-> f.mime_type,
     perceptual_hash |-> IF MimePrefix(f.mime_type) = "image/" THEN f.phash ELSE <<>>]

Uploaded(l) ==
    [l EXCEPT !.file_records = Append(@, FileRecord(l.payload[1].document,
                                                    l.payload[1].files[l.idx])),
              !.pc = "extract"]

Upload(c) ==
    /\ L(c).pc = "upload"
    /\ CurFile(c).uri # ""
    /\ LET f == CurFile(c)
           object_name == ObjectName(P(c).document, f)
       IN /\ objects' = {o \in objects : o[1] # object_name}
                        \cup {<<object_name, f.content>>}
          /\ SetCall(c, Uploaded(L(c)))
    /\ UNCHANGED <<notIngest, gProps, gNodes, gEdges, gBlockVector, vectors, kvHash, hist>>

\* the texts a file appends to page_texts
PageTexts(f) ==
    CASE Branch(f) = "text" ->
            IF Truthy(extract_text_from_file(f)) THEN <<extract_text_from_file(f)>> ELSE <<>>
      [] Branch(f) = "pdf" -> f.pdf_pages
      [] Branch(f) \in {"image", "audio"} -> <<f.text>>
      [] OTHER -> <<>>

\* the texts of a file whose fingerprint reaches the dedup index: the image
\* branch hashes the OCR text only if it is not empty (line 166)
HashedTexts(f) ==
    IF Branch(f) = "image" /\ ~Truthy(f.text) THEN <<>> ELSE SimhashTodo(PageTexts(f))

\* lines 80-213 without the dedup and embedding awaits: the extractor of the
\* file's branch runs and the blocks, block_vectors, transcript and audio
\* records of the file are appended
Extracted(l) ==
    LET f == l.payload[1].files[l.idx]
        rec == l.file_records[l.idx]
        doc_id == l.payload[1].document.doc_id
        page_id == PageId(doc_id, l.idx - 1)
        br == Branch(f)
        text_content == extract_text_from_file(f)
        transcript_id == doc_id \o "::transcript::" \o ToString(l.idx - 1)
        newBlocks ==
            CASE br = "text" ->
                   IF Truthy(text_content)
                   THEN <<BlockNode(page_id \o "#block", "text", text_content, page_id)>>
                   ELSE <<>>
              [] br = "pdf" -> PdfBlocks(page_id, f.pdf_pages, 0)
              [] br = "image" -> <<BlockNode(page_id \o "#image", "image", f.text, page_id)>>
              [] OTHER -> <<>>
        newVectors ==
            IF br = "audio"
            THEN <<BlockRecord(transcript_id, f.text, None, rec.uri, f.mime_type)>>
            ELSE ToBlockRecords(newBlocks, rec.uri, f.mime_type)
        texts == PageTexts(f)
        hashed == HashedTexts(f)
    IN [l EXCEPT
            !.blocks = @ \o newBlocks,
            !.block_vectors = @ \o newVectors,
            !.transcript_records = IF br = "audio"
                THEN Append(@, [transcript_id |-> transcript_id, text_content |-> f.text])
                ELSE @,
            !.audio_nodes = IF br = "audio"
                THEN Append(@, [audio_id |-> doc_id \o "::audio::" \o ToString(l.idx - 1)])
                ELSE @,
            !.page_texts = texts,
            !.todo = hashed,
            !.pc = IF hashed # <<>> THEN "simhash_scan"
                   ELSE IF br = "image" THEN "image_embed" ELSE "embed_page"]

Extract(c) ==
    /\ L(c).pc = "extract"
    /\ SetCall(c, Extracted(L(c)))
    /\ UNCHANGED <<notIngest, gProps, gNodes, gEdges, gBlockVector, vectors, kvHash, objects, hist>>

RECURSIVE LinkNearDuplicates(_, _, _)
LinkNearDuplicates(g, sha256, others) ==
    IF others = {} THEN g
    ELSE LET o == CHOOSE x \in others : TRUE
         IN LinkNearDuplicates(link_files_near_duplicate(g, sha256, o), sha256, others \ {o})

\* lines 321-327: hgetall, then a NEAR_DUPLICATE link per entry within distance 3
SimhashMatches(existing, sha256, simhash_value) ==
    {e[1] : e \in {x \in existing :
        /\ x[1] # sha256
        /\ hamming_distance(simhash_value, ParseDec(x[2])) <= SimhashThreshold}}

SimhashScan(c) ==
    /\ L(c).pc = "simhash_scan"
    /\ LET sha256 == CurRecord(c).sha256
           g == LinkNearDuplicates(Graph, sha256,
                    SimhashMatches(kvHash["dedupe:simhash"], sha256,
                                   compute_simhash(Head(L(c).todo))))
       IN /\ gNodes' = g.nodes
          /\ gEdges' = g.edges
    /\ SetCall(c, [L(c) EXCEPT !.pc = "simhash_set"])
    /\ UNCHANGED <<notIngest, gProps, gBlockVector, vectors, kvHash, objects, hist>>

\* line 328: hset("dedupe:simhash", sha256, str(simhash_value))
SimhashSet(c) ==
    /\ L(c).pc = "simhash_set"
    /\ kvHash' = [kvHash EXCEPT !["dedupe:simhash"] =
                    HSet(@, CurRecord(c).sha256, DecDigits(compute_simhash(Head(L(c).todo))))]
    /\ SetCall(c, [L(c) EXCEPT
            !.todo = Tail(@),
            !.pc = IF Tail(L(c).todo) # <<>> THEN "simhash_scan"
                   ELSE IF Branch(CurFile(c)) = "image" THEN "image_embed"
                   ELSE "embed_page"])
    /\ UNCHANGED <<notIngest, gProps, gNodes, gEdges, gBlockVector, vectors, objects, hist>>

\* lines 169-179: the image embedding is computed and queued for the images table
ImageEmbedded(l) ==
    [l EXCEPT
        !.image_embeddings =
            Append(@, [id |-> PageId(l.payload[1].document.doc_id, l.idx - 1) \o "#image",
                       doc_id |-> l.payload[1].document.doc_id]),
        !.pc = IF l.file_records[l.idx].perceptual_hash # <<>> THEN "phash_scan"
               ELSE "embed_page"]

ImageEmbed(c) ==
    /\ L(c).pc = "image_embed"
    /\ SetCall(c, ImageEmbedded(L(c)))
    /\ UNCHANGED <<notIngest, gProps, gNodes, gEdges, gBlockVector, vectors, kvHash, objects, hist>>

\* lines 331-338
PhashMatches(existing, sha256, phash_value) ==
    {e[1] : e \in {x \in existing :
        /\ x[1] # sha256
        /\ hamming_distance(ParseHex(phash_value), ParseHex(x[2])) <= PhashThreshold}}

PhashScan(c) ==
    /\ L(c).pc = "phash_scan"
    /\ LET sha256 == CurRecord(c).sha256
           g == LinkNearDuplicates(Graph, sha256,
                    PhashMatches(kvHash["dedupe:phash"], sha256,
                                 CurRecord(c).perceptual_hash))
       IN /\ gNodes' = g.nodes
          /\ gEdges' = g.edges
    /\ SetCall(c, [L(c) EXCEPT !.pc = "phash_set"])
    /\ UNCHANGED <<notIngest, gProps, gBlockVector, vectors, kvHash, objects, hist>>

\* line 339
PhashSet(c) ==
    /\ L(c).pc = "phash_set"
    /\ kvHash' = [kvHash EXCEPT !["dedupe:phash"] =
                    HSet(@, CurRecord(c).sha256, CurRecord(c).perceptual_hash)]
    /\ SetCall(c, [L(c) EXCEPT !.pc = "embed_page"])
    /\ UNCHANGED <<notIngest, gProps, gNodes, gEdges, gBlockVector, vectors, objects, hist>>

\* lines 215-221: the page texts are embedded and pooled, the page is appended;
\* then the next file, or the code after the loop
\* a loop that appends the page of a file only when the file gave texts
PageEmbedded_SkipEmpty(l) ==
    [l EXCEPT
        !.pages = IF l.page_texts = <<>> THEN @
                  ELSE Append(@, [page_id |-> PageId(l.payload[1].document.doc_id, l.idx - 1),
                                  page_index |-> l.idx - 1]),
        !.page_texts = <<>>,
        !.idx = @ + 1,
        !.pc = IF l.idx < Len(l.payload[1].files) THEN "upload" ELSE "block"]

PageEmbedded(l) ==
    [l EXCEPT
        !.pages = Append(@, [page_id |-> PageId(l.payload[1].document.doc_id, l.idx - 1),
                             page_index |-> l.idx - 1]),
        !.page_texts = <<>>,
        !.idx = @ + 1,
        !.pc = IF l.idx < Len(l.payload[1].files) THEN "upload" ELSE "block"]

EmbedPage(c) ==
    /\ L(c).pc = "embed_page"
    /\ SetCall(c, PageEmbedded(L(c)))
    /\ UNCHANGED <<notIngest, gProps, gNodes, gEdges, gBlockVector, vectors, kvHash, objects, hist>>

\* lines 223-236: the payload's optional block
WithExtraBlock(l) ==
    LET bs == l.payload[1].block
    IN [l EXCEPT
            !.blocks = IF bs = <<>> THEN @
                       ELSE Append(@, BlockNode(bs[1].block_id, bs[1].block_type,
                                                bs[1].text_content, bs[1].page_id)),
            !.block_vectors = IF bs = <<>> THEN @
                       ELSE Append(@, BlockRecord(bs[1].block_id, bs[1].text_content,
                                                  bs[1].page_id, l.payload[1].document.source,
                                                  "text/plain")),
            !.pc = "bundle"]

ExtraBlock(c) ==
    /\ L(c).pc = "block"
    /\ SetCall(c, WithExtraBlock(L(c)))
    /\ hist' = [hist EXCEPT !.atBundle[c] = Graph]
    /\ UNCHANGED <<notIngest, gProps, gNodes, gEdges, gBlockVector, vectors, kvHash, objects>>

\* line 238 with client.py 159-186: the statements of the bundle
CallStatements(l) ==
    BundleStatements(l.payload[1].document, l.file_records, l.pages, l.blocks,
                     l.payload[1].relationships)

\* session.execute_write(work): the statements take effect together, at commit
run_in_transaction(g, statements) == RunStatements(g, statements)

ingest_document_bundle(g, l) == run_in_transaction(g, CallStatements(l))

\* tx.run of the next statement inside the transaction: nothing is visible yet
TxRun(c) ==
    /\ L(c).pc = "bundle"
    /\ L(c).txpos < Len(CallStatements(L(c)))
    /\ SetCall(c, [L(c) EXCEPT !.txpos = @ + 1])
    /\ UNCHANGED <<notIngest, gProps, gNodes, gEdges, gBlockVector, vectors, kvHash, objects, hist>>

\* the transaction commits after its last statement
TxCommit(c) ==
    /\ L(c).pc = "bundle"
    /\ L(c).txpos = Len(CallStatements(L(c)))
    /\ LET g == ingest_document_bundle(Graph, L(c))
       IN /\ gNodes' = g.nodes
          /\ gEdges' = g.edges
          /\ gProps' = g.props
    /\ SetCall(c, [L(c) EXCEPT !.pc = StageFrom(L(c), 1), !.log = Append(@, "bundle")])
    /\ UNCHANGED <<notIngest, gBlockVector, vectors, kvHash, objects, hist>>

\* the rows of text_payload: one per block record with a text
RECURSIVE TextPayload(_, _)
TextPayload(doc_id, records) ==
    IF records = <<>> THEN <<>>
    ELSE <<[id |-> Head(records).block_id, doc_id |-> doc_id]>>
         \o TextPayload(doc_id, Tail(records))

\* a variant of _persist_vectors that upserts the rows before the block vectors are set
PersistEmbed_UpsertFirst(c) ==
    /\ L(c).pc = "persist_embed"
    /\ vectors' = upsert_vectors(vectors, "documents",
                    TextPayload(P(c).document.doc_id, TextRecords(L(c).block_vectors)))
    /\ SetCall(c, [L(c) EXCEPT !.pc = "set_block_vector"])
    /\ UNCHANGED <<notIngest, gProps, gNodes, gEdges, gBlockVector, kvHash, objects, hist>>

\* _persist_vectors, line 296: the texts of the block records are embedded
PersistEmbed(c) ==
    /\ L(c).pc = "persist_embed"
    /\ SetCall(c, [L(c) EXCEPT !.pc = "set_block_vector"])
    /\ UNCHANGED <<notIngest, gProps, gNodes, gEdges, gBlockVector, vectors, kvHash, objects, hist>>

\* lines 298-312: MATCH (b:Block {block_id}) SET b.text_vector per text record
set_block_vectors(bv, nodes, l) ==
    bv \cup {b.block_id : b \in {x \in Range(TextRecords(l.block_vectors)) :
                                    Node("Block", x.block_id) \in nodes}}

SetBlockVector(c) ==
    /\ L(c).pc = "set_block_vector"
    /\ gBlockVector' = set_block_vectors(gBlockVector, gNodes, L(c))
    /\ SetCall(c, [L(c) EXCEPT !.pc = "upsert_documents"])
    /\ UNCHANGED <<notIngest, gProps, gNodes, gEdges, vectors, kvHash, objects, hist>>

\* lines 313-314
UpsertDocuments(c) ==
    /\ L(c).pc = "upsert_documents"
    /\ vectors' = upsert_vectors(vectors, "documents",
                    TextPayload(P(c).document.doc_id, TextRecords(L(c).block_vectors)))
    /\ SetCall(c, [L(c) EXCEPT !.pc = NextStage(L(c), "upsert_documents"),
                               !.log = Append(@, "vector")])
    /\ UNCHANGED <<notIngest, gProps, gNodes, gEdges, gBlockVector, kvHash, objects, hist>>

\* lines 315-316
UpsertImages(c) ==
    /\ L(c).pc = "upsert_images"
    /\ vectors' = upsert_vectors(vectors, "images", L(c).image_embeddings)
    /\ SetCall(c, [L(c) EXCEPT !.pc = NextStage(L(c), "upsert_images"),
                               !.log = Append(@, "vector")])
    /\ UNCHANGED <<notIngest, gProps, gNodes, gEdges, gBlockVector, kvHash, objects, hist>>

\* _ingest_email, lines 346-353: the sender, then the recipients
RECURSIVE EmailPeople(_, _, _, _)
EmailPeople(g, message_id, sender, addresses) ==
    IF addresses = <<>> THEN g
    ELSE IF ~Truthy(Head(addresses))
         THEN EmailPeople(g, message_id, sender, Tail(addresses))
    ELSE LET address == Head(addresses)
             pid == person_id(address)
             relation == IF address = sender THEN "sent_by" ELSE "received_by"
         IN EmailPeople(link_email_person(MergeNode(g, "Person", pid), message_id, pid, relation),
                        message_id, sender, Tail(addresses))

ingest_email(g, document, email) ==
    EmailPeople(link_email_document(MergeNode(g, "Email", email.message_id),
                                    email.message_id, document.doc_id),
                email.message_id, email.sender, <<email.sender>> \o email.recipients)

IngestEmail(c) ==
    /\ L(c).pc = "email"
    /\ LET g == ingest_email(Graph, P(c).document, P(c).email[1])
       IN /\ gNodes' = g.nodes
          /\ gEdges' = g.edges
    /\ SetCall(c, [L(c) EXCEPT !.pc = NextStage(L(c), "email"),
                               !.log = Append(@, "facet")])
    /\ UNCHANGED <<notIngest, gProps, gBlockVector, vectors, kvHash, objects, hist>>

\* lines 245-251: the Image node, linked to the first image file of the payload
IsImageRecord(r) == MimePrefix(r.mime_type) = "image/"

upsert_image(g, l) ==
    LET image_id == l.payload[1].image[1].image_id
        g1 == MergeNode(g, "Image", image_id)
        imgs == SelectSeq(l.file_records, IsImageRecord)
    IN IF imgs = <<>> THEN g1 ELSE link_image_file(g1, image_id, imgs[1].sha256)

UpsertImage(c) ==
    /\ L(c).pc = "image"
    /\ LET g == upsert_image(Graph, L(c))
       IN /\ gNodes' = g.nodes
          /\ gEdges' = g.edges
    /\ SetCall(c, [L(c) EXCEPT !.pc = NextStage(L(c), "image"),
                               !.log = Append(@, "facet")])
    /\ UNCHANGED <<notIngest, gProps, gBlockVector, vectors, kvHash, objects, hist>>

\* lines 253-255
upsert_transcripts(nodes, l) ==
    nodes \cup {Node("Transcript", t.transcript_id) : t \in Range(l.transcript_records)}

UpsertTranscripts(c) ==
    /\ L(c).pc = "transcripts"
    /\ gNodes' = upsert_transcripts(gNodes, L(c))
    /\ SetCall(c, [L(c) EXCEPT !.pc = NextStage(L(c), "transcripts"),
                               !.log = Append(@, "facet")])
    /\ UNCHANGED <<notIngest, gProps, gEdges, gBlockVector, vectors, kvHash, objects, hist>>

\* lines 257-262
RECURSIVE AudioNodes(_, _, _, _)
AudioNodes(g, audio_nodes, transcript_records, index) ==
    IF index > Len(audio_nodes) THEN g
    ELSE LET g1 == MergeNode(g, "Audio", audio_nodes[index].audio_id)
             g2 == IF index <= Len(transcript_records)
                   THEN link_audio_transcript(g1, audio_nodes[index].audio_id,
                                              transcript_records[index].transcript_id)
                   ELSE g1
         IN AudioNodes(g2, audio_nodes, transcript_records, index + 1)

UpsertAudio(c) ==
    /\ L(c).pc = "audio"
    /\ LET g == AudioNodes(Graph, L(c).audio_nodes, L(c).transcript_records, 1)
       IN /\ gNodes' = g.nodes
          /\ gEdges' = g.edges
    /\ SetCall(c, [L(c) EXCEPT !.pc = NextStage(L(c), "audio"),
                               !.log = Append(@, "facet")])
    /\ UNCHANGED <<notIngest, gProps, gBlockVector, vectors, kvHash, objects, hist>>

\* _ingest_entities, lines 358-395: every named entity is upserted under its
\* derived id; events keep a given event_id, else the hash of the title as is
NamedNodes(label, kind, names) ==
    {Node(label, EntityId(kind, n)) : n \in {x \in Range(names) : Truthy(x)}}

EventNodes(events) ==
    {Node("Event", IF Truthy(e.event_id) THEN e.event_id
                   ELSE "event:h(" \o e.title \o ")") : e \in Range(events)}

ingest_entities(nodes, entities) ==
    nodes \cup NamedNodes("Person", "person", entities.people)
          \cup NamedNodes("Organization", "org", entities.organizations)
          \cup NamedNodes("Project", "project", entities.projects)
          \cup NamedNodes("Place", "place", entities.places)
          \cup EventNodes(entities.events)

IngestEntities(c) ==
    /\ L(c).pc = "entities"
    /\ gNodes' = ingest_entities(gNodes, P(c).entities)
    /\ SetCall(c, [L(c) EXCEPT !.pc = NextStage(L(c), "entities"),
                               !.log = Append(@, "facet")])
    /\ UNCHANGED <<notIngest, gProps, gEdges, gBlockVector, vectors, kvHash, objects, hist>>

\* an await of process() raises: the exception leaves process() at once
RaisingPcs ==
    {"upload", "extract", "simhash_scan", "simhash_set", "image_embed", "phash_scan",
     "phash_set", "embed_page", "bundle", "persist_embed", "set_block_vector",
     "upsert_documents", "upsert_images", "email", "image", "transcripts", "audio",
     "entities"}

ProcFail(c) ==
    /\ L(c).pc \in RaisingPcs
    /\ L(c).pc = "embed_page" => L(c).page_texts # <<>>
    /\ SetCall(c, [L(c) EXCEPT !.pc = "failed", !.failedAt = L(c).pc])
    /\ UNCHANGED <<notIngest, gProps, gNodes, gEdges, gBlockVector, vectors, kvHash, objects, hist>>

\* process() returns to its caller
process_returns(c) ==
    /\ L(c).pc = "done"
    /\ SetCall(c, IdleCall)
    /\ hist' = [hist EXCEPT !.prev = <<[payload |-> P(c), after |-> Snapshot]>>]
    /\ UNCHANGED <<gNodes, gEdges, gProps, gBlockVector, vectors, kvHash, objects>>

ProcReturn(c) == process_returns(c) /\ UNCHANGED notIngest

\* the exception reaches the caller of process()
process_raises(c) ==
    /\ L(c).pc = "failed"
    /\ SetCall(c, IdleCall)
    /\ hist' = [hist EXCEPT !.prev = <<>>]
    /\ UNCHANGED <<gNodes, gEdges, gProps, gBlockVector, vectors, kvHash, objects>>

ProcRaise(c) == process_raises(c) /\ UNCHANGED notIngest

\* a step inside a process() call
IngestStep(c) ==
    \/ Upload(c)
    \/ Extract(c)
    \/ SimhashScan(c)
    \/ SimhashSet(c)
    \/ ImageEmbed(c)
    \/ PhashScan(c)
    \/ PhashSet(c)
    \/ EmbedPage(c)
    \/ ExtraBlock(c)
    \/ TxRun(c)
    \/ TxCommit(c)
    \/ PersistEmbed(c)
    \/ SetBlockVector(c)
    \/ UpsertDocuments(c)
    \/ UpsertImages(c)
    \/ IngestEmail(c)
    \/ UpsertImage(c)
    \/ UpsertTranscripts(c)
    \/ UpsertAudio(c)
    \/ IngestEntities(c)
    \/ ProcFail(c)

----------------------------------------------------------------------------
\* process() as a function of the stores, for a call that runs alone and
\* returns: what the steps above do, composed in program order

Stores ==
    [nodes |-> gNodes, edges |-> gEdges, props |-> gProps, bv |-> gBlockVector,
     kv |-> kvHash]

GraphOf(S) == [nodes |-> S.nodes, edges |-> S.edges, props |-> S.props]
WithGraph(S, g) == [S EXCEPT !.nodes = g.nodes, !.edges = g.edges, !.props = g.props]

\* the locals when the file loop is over
RECURSIVE FileLoop(_)
FileLoop(l) ==
    IF l.idx > Len(l.payload[1].files) THEN l
    ELSE LET e == Extracted(Uploaded(l))
             i == IF Branch(l.payload[1].files[l.idx]) = "image" THEN ImageEmbedded(e) ELSE e
         IN FileLoop(PageEmbedded(i))

LocalsAtBundle(p) == WithExtraBlock(FileLoop([IdleCall EXCEPT !.payload = <<p>>, !.idx = 1]))

\* _handle_simhash_duplicates for the hashed texts of one file, one after another
RECURSIVE SimhashAll(_, _, _)
SimhashAll(S, sha256, texts) ==
    IF texts = <<>> THEN S
    ELSE LET value == compute_simhash(Head(texts))
             g == LinkNearDuplicates(GraphOf(S), sha256,
                      SimhashMatches(S.kv["dedupe:simhash"], sha256, value))
         IN SimhashAll([WithGraph(S, g) EXCEPT
                            !.kv["dedupe:simhash"] = HSet(@, sha256, DecDigits(value))],
                       sha256, Tail(texts))

\* _handle_phash_duplicates for an image file with a perceptual hash
PhashOne(S, rec) ==
    IF rec.perceptual_hash = <<>> THEN S
    ELSE LET g == LinkNearDuplicates(GraphOf(S), rec.sha256,
                      PhashMatches(S.kv["dedupe:phash"], rec.sha256, rec.perceptual_hash))
         IN [WithGraph(S, g) EXCEPT
                !.kv["dedupe:phash"] = HSet(@, rec.sha256, rec.perceptual_hash)]

RECURSIVE DedupFiles(_, _, _)
DedupFiles(S, document, files) ==
    IF files = <<>> THEN S
    ELSE LET f == Head(files)
             rec == FileRecord(document, f)
             S1 == SimhashAll(S, rec.sha256, HashedTexts(f))
             S2 == IF Branch(f) = "image" THEN PhashOne(S1, rec) ELSE S1
         IN DedupFiles(S2, document, Tail(files))

process_sequential(S, p) ==
    LET l == LocalsAtBundle(p)
        S1 == DedupFiles(S, p.document, p.files)
        g2 == ingest_document_bundle(GraphOf(S1), l)
        bv == IF Applicable(l, "set_block_vector")
              THEN set_block_vectors(S1.bv, g2.nodes, l) ELSE S1.bv
        g3 == IF Applicable(l, "email") THEN ingest_email(g2, p.document, p.email[1]) ELSE g2
        g4 == IF Applicable(l, "image") THEN upsert_image(g3, l) ELSE g3
        g5 == IF Applicable(l, "transcripts")
              THEN [g4 EXCEPT !.nodes = upsert_transcripts(@, l)] ELSE g4
        g6 == IF Applicable(l, "audio")
              THEN AudioNodes(g5, l.audio_nodes, l.transcript_records, 1) ELSE g5
        g7 == IF Applicable(l, "entities")
              THEN [g6 EXCEPT !.nodes = ingest_entities(@, p.entities)] ELSE g6
    IN [WithGraph(S1, g7) EXCEPT !.bv = bv]

----------------------------------------------------------------------------
\* Two process() calls that overlap: the queue worker's call and a call made
\* by another task of the process (the ingest route, a script). Calls that run
\* alone come first; the second call of the pair starts while the first is in
\* flight, on a payload with other files.

PairCallers == {"w1", "w2"}

\* one image per payload, for calls that meet in dedupe:phash
pImg1 == Payload(Doc("d:7", 1, "photos"), <<fImg1>>, <<>>, <<>>, <<>>, NoEntities, <<>>)
pImg2 == Payload(Doc("d:8", 1, "photos"), <<fImg2>>, <<>>, <<>>, <<>>, NoEntities, <<>>)

PairPayloads == {pA, pB, pImg1, pImg2}

NoPair == [base |-> <<>>, first |-> <<>>, second |-> <<>>, ended |-> {}, failed |-> FALSE]

\* a call starts while no other call is in flight
PairFirst(p) ==
    /\ \A c \in PairCallers : L(c).pc = "idle"
    /\ pair.second = <<>>
    /\ process("w1", p)
    /\ pair' = [NoPair EXCEPT !.base = <<Stores>>, !.first = <<p>>]
    /\ UNCHANGED <<retrVars, mmVars, queueVars, kvUp, cn, svcVars>>

\* a second call starts while the first is in flight
PairSecond(p) ==
    /\ L("w1").pc \notin {"idle", "failed"}
    /\ pair.second = <<>>
    /\ Range(p.files) \cap Range(pair.first[1].files) = {}
    /\ process("w2", p)
    /\ pair' = [pair EXCEPT !.second = <<p>>]
    /\ UNCHANGED <<retrVars, mmVars, queueVars, kvUp, cn, svcVars>>

\* the next version of d:1: the same file, other attributes
pA2 == [pA EXCEPT !.document = Doc("d:1", 2, "drive")]

VersionPayloads == {pA, pA2}

\* a call on another version of the document of the call that returned last
VersionSecond(p) ==
    /\ \A c \in PairCallers : L(c).pc = "idle"
    /\ pair.first # <<>> /\ pair.second = <<>>
    /\ pair.ended = {"w1"} /\ ~pair.failed
    /\ p.document.doc_id = pair.first[1].document.doc_id
    /\ p.document.version # pair.first[1].document.version
    /\ process("w1", p)
    /\ pair' = [pair EXCEPT !.second = <<p>>, !.ended = {}]
    /\ UNCHANGED <<retrVars, mmVars, queueVars, kvUp, cn, svcVars>>

\* payloads whose files meet in one object name: two files of one payload
\* named a.md, and a doc_id that is the sanitized form of another
fA2 == File("/in/sub/a.md", "a.md", ".md", "cB", "text/markdown", "tB", <<>>, <<>>)
fA3 == File("/in/old/a.md", "a.md", ".md", "cC", "text/markdown", "tC", <<>>, <<>>)
pTwin == Payload(Doc("d:9", 1, "local_filesystem"), <<fA, fA2>>, <<>>, <<>>, <<>>,
                 NoEntities, <<>>)
pUnder == Payload(Doc("d_9", 1, "local_filesystem"), <<fA3>>, <<>>, <<>>, <<>>,
                  NoEntities, <<>>)
pColon == Payload(Doc("d:9", 1, "local_filesystem"), <<fA>>, <<>>, <<>>, <<>>,
                  NoEntities, <<>>)

ObjectPayloads == {pTwin, pUnder, pColon}

\* mails: one whose sender is a recipient too, one whose recipient is named
\* among the people in upper case ("Weiß@example.com".upper())
pSelf == Payload(Doc("d:7", 1, "gmail"), <<>>, <<>>,
                 <<[message_id |-> "m:2", sender |-> "Alice@Example.com",
                    recipients |-> <<"bob@example.com", "Alice@Example.com">>]>>,
                 <<>>, [NoEntities EXCEPT !.people = <<"ALICE@EXAMPLE.COM">>], <<>>)
pSharp == Payload(Doc("d:8", 1, "gmail"), <<fB>>, <<>>,
                  <<[message_id |-> "m:3", sender |-> "bob@example.com",
                     recipients |-> <<"Weiß@example.com">>]>>,
                  <<>>, [NoEntities EXCEPT !.people = <<"WEISS@EXAMPLE.COM">>], <<>>)

MailPayloads == {pMail, pSelf, pSharp}

\* files that give their page nothing: a text file without text, a file of no
\* handled MIME family, and (fImg1) an image without OCR text
fEmpty == File("/in/e.txt", "e.txt", ".txt", "cE", "text/plain", "", <<>>, <<>>)
fBin == File("/in/x.bin", "x.bin", ".bin", "cX", "application/octet-stream", "", <<>>, <<>>)
pOdd == Payload(Doc("d:7", 1, "local_filesystem"), <<fEmpty, fBin, fImg1, fB>>, <<>>, <<>>,
                <<>>, NoEntities, <<>>)

PagePayloads == {pOdd, pC, pAu, pImg, pTwin, pMail}

\* a document that declares a relationship of another type than VERSION_CHAIN
\* to the document d:1
pRef == Payload(Doc("d:8", 1, "notion"), <<fB>>, <<>>, <<>>, <<>>, NoEntities,
                <<[source_id |-> "d:8", target_id |-> "d:1", type |-> "REFERENCES"]>>)

RelPayloads == {pA, pB, pRef}

\* the first call on the empty stores
MailFirst(p) ==
    /\ pair.first = <<>>
    /\ PairFirst(p)

\* a later call, after the first call returned
MailSecond(p) ==
    /\ \A c \in PairCallers : L(c).pc = "idle"
    /\ pair.first # <<>> /\ pair.second = <<>>
    /\ pair.ended = {"w1"} /\ ~pair.failed
    /\ process("w1", p)
    /\ pair' = [pair EXCEPT !.second = <<p>>, !.ended = {}]
    /\ UNCHANGED <<retrVars, mmVars, queueVars, kvUp, cn, svcVars>>

PairStep(c) ==
    /\ pair.first # <<>>
    /\ IngestStep(c)

PairReturn(c) ==
    /\ process_returns(c)
    /\ pair' = [pair EXCEPT !.ended = @ \cup {c}]
    /\ UNCHANGED <<retrVars, mmVars, queueVars, kvUp, cn, svcVars>>

PairRaise(c) ==
    /\ process_raises(c)
    /\ pair' = [pair EXCEPT !.ended = @ \cup {c}, !.failed = TRUE]
    /\ UNCHANGED <<retrVars, mmVars, queueVars, kvUp, cn, svcVars>>

----------------------------------------------------------------------------
\* apps/api/services/retrieval.py: values and pure helpers
\*
\* Scores are integers in thousandths (0.9 is 900). A combined score is kept
\* in units of 1/60000 so that 0.7 * rerank + 0.3 * sum / n is exact for the
\* list lengths n that occur; texts are strings and Split is str.split().

\* dict.get(key, default)
Get(d, k, default) == IF k \in DOMAIN d THEN d[k] ELSE default

\* a or b, on Optional[str]
PyOr(a, b) == IF Truthy(a) THEN a ELSE b

Split(text) ==
    CASE text = "alpha beta" -> {"alpha", "beta"}
      [] text = "alpha gamma" -> {"alpha", "gamma"}
      [] text = "delta" -> {"delta"}
      [] text = "orphan" -> {"orphan"}
      [] OTHER -> {}

\* integer square root, exact on the perfect squares the texts produce
ISqrt(n) == CHOOSE r \in 0..n : r * r <= n /\ (r + 1) * (r + 1) > n

\* _cosine_similarity, in thousandths
cosine_similarity(text_a, text_b) ==
    LET a_tokens == Split(text_a)
        b_tokens == Split(text_b)
    IN  IF a_tokens = {} \/ b_tokens = {} THEN 0
        ELSE (1000 * Cardinality(a_tokens \cap b_tokens))
                 \div ISqrt(Cardinality(a_tokens) * Cardinality(b_tokens))

\* the cross-encoder: sigmoid(logit) of (query, passage), in thousandths
ModelScore(query, passage) ==
    CASE passage = "alpha beta" -> 950
      [] passage = "alpha gamma" -> 950
      [] passage = "delta" -> 400
      [] OTHER -> 100

\* a descending sort that puts an item before the items of equal score
RECURSIVE InsertBeforeEqual(_, _)
InsertBeforeEqual(sorted, x) ==
    IF sorted = <<>> THEN <<x>>
    ELSE IF Head(sorted).score > x.score
         THEN <<Head(sorted)>> \o InsertBeforeEqual(Tail(sorted), x)
    ELSE <<x>> \o sorted

RECURSIVE SortDesc_Unstable(_)
SortDesc_Unstable(s) ==
    IF s = <<>> THEN <<>>
    ELSE InsertBeforeEqual(SortDesc_Unstable(SubSeq(s, 1, Len(s) - 1)), s[Len(s)])

\* list.sort(key = score, reverse = True): stable, descending
RECURSIVE InsertDesc(_, _)
InsertDesc(sorted, x) ==
    IF sorted = <<>> THEN <<x>>
    ELSE IF Head(sorted).score >= x.score THEN <<Head(sorted)>> \o InsertDesc(Tail(sorted), x)
    ELSE <<x>> \o sorted

RECURSIVE SortDesc(_)
SortDesc(s) ==
    IF s = <<>> THEN <<>>
    ELSE InsertDesc(SortDesc(SubSeq(s, 1, Len(s) - 1)), s[Len(s)])

\* apps/workers/embeddings/rerank.py: RerankerService.rerank
rerank(query, candidates) ==
    SortDesc([i \in 1..Len(candidates) |->
        [doc_id |-> candidates[i].doc_id, passage |-> candidates[i].text,
         score |-> ModelScore(query, candidates[i].text)]])

\* merged.setdefault(doc_id, entry); merged[doc_id]["scores"].append(score)
IndexOf(merged, doc_id) ==
    IF \E i \in 1..Len(merged) : merged[i].doc_id = doc_id
    THEN CHOOSE i \in 1..Len(merged) : merged[i].doc_id = doc_id
    ELSE 0

MergeAppend(merged, doc_id, text, uri, score) ==
    LET i == IndexOf(merged, doc_id)
    IN  IF i = 0
        THEN Append(merged, [doc_id |-> doc_id, scores |-> <<score>>, text |-> text, uri |-> uri])
        ELSE [merged EXCEPT ![i].scores = Append(@, score)]

RECURSIVE MergeDense(_, _)
MergeDense(merged, dense_results) ==
    IF dense_results = <<>> THEN merged
    ELSE LET item == Head(dense_results)
             doc_id == PyOr(Get(item, "doc_id", None), Get(item, "id", None))
         IN  IF ~Truthy(doc_id) THEN MergeDense(merged, Tail(dense_results))
             ELSE MergeDense(MergeAppend(merged, doc_id, Get(item, "text", ""),
                                         Get(item, "uri", ""), Get(item, "score", 0)),
                             Tail(dense_results))

RECURSIVE MergeBm25(_, _)
MergeBm25(merged, bm25_results) ==
    IF bm25_results = <<>> THEN merged
    ELSE LET record == Head(bm25_results)
             properties == record.node
             doc_id == PyOr(Get(properties, "doc_id", None),
                       PyOr(Get(properties, "message_id", None),
                       PyOr(Get(properties, "page_id", None),
                       PyOr(Get(properties, "block_id", None),
                            Get(properties, "id", None)))))
         IN  IF "node" \notin DOMAIN record THEN MergeBm25(merged, Tail(bm25_results))
             ELSE MergeBm25(MergeAppend(merged, doc_id,
                                PyOr(Get(properties, "text_content", None),
                                     Get(properties, "snippet", "")),
                                Get(properties, "uri", ""), Get(record, "score", 0)),
                            Tail(bm25_results))

EntityWeight == 100

\* record.get("m") or record.get("node") or record.get("n")
PyNode(record) ==
    IF "m" \in DOMAIN record THEN <<record.m>>
    ELSE IF "node" \in DOMAIN record THEN <<record.node>>
    ELSE IF "n" \in DOMAIN record THEN <<record.n>>
    ELSE <<>>

RECURSIVE MergeEntity(_, _)
MergeEntity(merged, entity_related) ==
    IF entity_related = <<>> THEN merged
    ELSE LET record == Head(entity_related)
             node == PyNode(record)
             properties == node[1]
             doc_id == PyOr(Get(properties, "doc_id", None),
                       PyOr(Get(properties, "message_id", None),
                            Get(properties, "id", None)))
         IN  IF node = <<>> THEN MergeEntity(merged, Tail(entity_related))
             ELSE MergeEntity(MergeAppend(merged, doc_id,
                                  Get(properties, "text_content", ""),
                                  Get(properties, "uri", ""), EntityWeight),
                              Tail(entity_related))

merge_results(dense_results, bm25_results, entity_related) ==
    MergeEntity(MergeBm25(MergeDense(<<>>, dense_results), bm25_results), entity_related)

RetrievedDocument(doc_id, uri, text, score) ==
    [doc_id |-> doc_id, uri |-> uri, text |-> text, score |-> score]

RerankWeight == 7
ChannelWeight == 3

\* a combination that adds the channel scores without averaging them
CombinedScore_Sum(score, scores) ==
    (6 * RerankWeight * score) + (6 * ChannelWeight * SeqSum(scores))

\* (score * 0.7) + (avg_score * 0.3), in units of 1/60000
CombinedScore(score, scores) ==
    (6 * RerankWeight * score) + ((6 * ChannelWeight * SeqSum(scores)) \div Max2(Len(scores), 1))

Candidates(merged) == SelectSeq(merged, LAMBDA payload : Truthy(payload.text))

RetrievalOrchestrator_rerank(query, merged) ==
    LET reranked == rerank(query, Candidates(merged))
    IN  SortDesc([i \in 1..Len(reranked) |->
            LET payload == merged[IndexOf(merged, reranked[i].doc_id)]
            IN  RetrievedDocument(reranked[i].doc_id, payload.uri, reranked[i].passage,
                                  CombinedScore(reranked[i].score, payload.scores))])

\* lambda_param * relevance - (1 - lambda_param) * diversity, in units of 1/600000
MmrScore(candidate, selected, lambda_param) ==
    LET sims == {cosine_similarity(candidate.text, selected[j].text) : j \in 1..Len(selected)}
        diversity == CHOOSE s \in sims : \A t \in sims : s >= t
    IN  (lambda_param * candidate.score) - ((10 - lambda_param) * 60 * diversity)

\* a scan that replaces best_doc on a score that is larger or equal
BestIndex_LastOnTie(candidates, selected, lambda_param) ==
    CHOOSE i \in 1..Len(candidates) :
        /\ \A j \in 1..Len(candidates) :
              MmrScore(candidates[i], selected, lambda_param)
                  >= MmrScore(candidates[j], selected, lambda_param)
        /\ \A j \in (i + 1)..Len(candidates) :
              MmrScore(candidates[j], selected, lambda_param)
                  < MmrScore(candidates[i], selected, lambda_param)

\* the first candidate whose mmr_score is the largest (the scan replaces
\* best_doc only on a strictly larger score)
BestIndex(candidates, selected, lambda_param) ==
    CHOOSE i \in 1..Len(candidates) :
        /\ \A j \in 1..Len(candidates) :
              MmrScore(candidates[i], selected, lambda_param)
                  >= MmrScore(candidates[j], selected, lambda_param)
        /\ \A j \in 1..(i - 1) :
              MmrScore(candidates[j], selected, lambda_param)
                  < MmrScore(candidates[i], selected, lambda_param)

RemoveAt(s, i) == SubSeq(s, 1, i - 1) \o SubSeq(s, i + 1, Len(s))

RECURSIVE MmrLoop(_, _, _, _)
MmrLoop(selected, candidates, lambda_param, top_n) ==
    IF candidates = <<>> \/ Len(selected) >= top_n THEN selected
    ELSE IF selected = <<>>
    THEN MmrLoop(<<Head(candidates)>>, Tail(candidates), lambda_param, top_n)
    ELSE LET i == BestIndex(candidates, selected, lambda_param)
         IN  MmrLoop(Append(selected, candidates[i]), RemoveAt(candidates, i),
                     lambda_param, top_n)

mmr(docs, lambda_param, top_n) == MmrLoop(<<>>, docs, lambda_param, top_n)

----------------------------------------------------------------------------
\* apps/api/services/retrieval.py: RetrievalOrchestrator.retrieve

Queries == {"alpha"}
TopKs == {1, 2}

\* what the backends can answer (the indexes change between calls)
hitDoc1 == [doc_id |-> "doc-1", text |-> "alpha beta", uri |-> "file:///a.md", score |-> 900]
hitDoc2 == [id |-> "doc-2", text |-> "alpha gamma", score |-> 600]
hitNoId == [text |-> "orphan", score |-> 500]
\* a hit with the text and the score of hitDoc2: the two tie in every ranking
hitDoc4 == [doc_id |-> "doc-4", text |-> "alpha gamma", score |-> 600]
DenseAnswers ==
    {<<>>, <<hitDoc1>>, <<hitDoc1, hitDoc2>>, <<hitDoc1, hitDoc2, hitDoc4>>, <<hitNoId>>}

recDoc1 == [node |-> [doc_id |-> "doc-1", text_content |-> "alpha beta"], score |-> 700]
recNoId == [node |-> [snippet |-> "orphan"], score |-> 300]
Bm25Answers == {<<>>, <<recDoc1>>, <<recNoId>>}

recEntity == [node |-> [element_id |-> "4:e:1", name |-> "Project Alpha"], score |-> 500]
EntityAnswers == {<<>>, <<recEntity>>}

recRelated == [m |-> [doc_id |-> "doc-3", text_content |-> "delta"]]
RelatedAnswers == {<<>>, <<recRelated>>}

cache_key(query, top_k) == "ask:" \o query \o ":" \o ToString(top_k)

CacheKeys == {cache_key(q, k) : q \in Queries, k \in TopKs}

\* json.dumps / json.loads of a list of dicts
json_dumps(value) == <<"json", value>>
json_loads(s) == s[2]

\* ValkeyClient.get: <<>> is None, <<v>> a decoded value
ValkeyClient_get(key) ==
    IF kvStr[key] # <<>> THEN <<json_loads(kvStr[key])>> ELSE <<>>

\* ValkeyClient.set(key, value), ex = 86400
ValkeyClient_set(store, key, value) == [store EXCEPT ![key] = json_dumps(value)]

\* "if cached:" on Optional[list]
CachedTruthy(cached) == cached # <<>> /\ cached[1] # <<>>

IdleRetrieve ==
    [pc |-> "idle", query |-> "", top_k |-> 0, calls |-> {}, prev |-> <<>>,
     dense |-> <<>>, bm25 |-> <<>>, entity |-> <<>>, related |-> <<>>,
     reranked |-> <<>>, result |-> <<>>, error |-> "none", at |-> "none",
     writes |-> 0, wrote |-> <<>>]

RKey(c) == cache_key(rq[c].query, rq[c].top_k)

retrieve(c, query, top_k) ==
    /\ rq[c].pc = "idle"
    /\ rq' = [rq EXCEPT ![c] = [IdleRetrieve EXCEPT !.pc = "cache_get", !.query = query,
                                   !.top_k = top_k, !.prev = rhist[cache_key(query, top_k)]]]
    /\ UNCHANGED <<notRetr, kvStr, rhist>>

\* retrieve() ends with the exception of one of its awaits
Raised(c, error) ==
    rq' = [rq EXCEPT ![c].pc = "raised", ![c].error = error, ![c].at = rq[c].pc]

\* cache.get raises a connection error: no try block in retrieve()
CacheGetRaises(c) ==
    /\ rq[c].pc = "cache_get"
    /\ ~kvUp
    /\ Raised(c, "kv")
    /\ UNCHANGED <<notRetr, kvStr, rhist>>

CacheGet(c) ==
    /\ rq[c].pc = "cache_get"
    /\ kvUp
    /\ LET cached == ValkeyClient_get(RKey(c))
       IN  IF CachedTruthy(cached)
           THEN rq' = [rq EXCEPT ![c].pc = "done", ![c].result = cached[1]]
           ELSE rq' = [rq EXCEPT ![c].pc = "fanout"]
    /\ UNCHANGED <<notRetr, kvStr, rhist>>

Fanout(c) ==
    /\ rq[c].pc = "fanout"
    /\ \E d \in DenseAnswers, b \in Bm25Answers, e \in EntityAnswers :
          rq' = [rq EXCEPT ![c].pc = "expand", ![c].dense = d, ![c].bm25 = b,
                           ![c].entity = e,
                           ![c].calls = @ \cup {"dense", "bm25", "entity"}]
    /\ UNCHANGED <<notRetr, kvStr, rhist>>

\* asyncio.gather re-raises the first exception of its three tasks
FanoutRaises(c) ==
    /\ rq[c].pc = "fanout"
    /\ Raised(c, "backend")
    /\ UNCHANGED <<notRetr, kvStr, rhist>>

ElementIds(entity_results) ==
    SelectSeq([i \in 1..Len(entity_results) |->
                  IF "node" \in DOMAIN entity_results[i]
                  THEN Get(entity_results[i].node, "element_id", None) ELSE None],
              Truthy)

entity_expand(c) ==
    /\ rq[c].pc = "expand"
    /\ IF ElementIds(rq[c].entity) = <<>>
       THEN rq' = [rq EXCEPT ![c].pc = "rerank", ![c].related = <<>>]
       ELSE \E r \in RelatedAnswers :
               rq' = [rq EXCEPT ![c].pc = "rerank", ![c].related = r,
                                ![c].calls = @ \cup {"traverse_related"}]
    /\ UNCHANGED <<notRetr, kvStr, rhist>>

\* traverse_related raises
ExpandRaises(c) ==
    /\ rq[c].pc = "expand"
    /\ ElementIds(rq[c].entity) # <<>>
    /\ Raised(c, "backend")
    /\ UNCHANGED <<notRetr, kvStr, rhist>>

\* the reranker raises
RerankRaises(c) ==
    /\ rq[c].pc = "rerank"
    /\ Raised(c, "backend")
    /\ UNCHANGED <<notRetr, kvStr, rhist>>

\* a retrieve() that stores the reranked list before diversification
Rerank_CachesReranked(c) ==
    /\ rq[c].pc = "rerank"
    /\ kvUp
    /\ LET combined == merge_results(rq[c].dense, rq[c].bm25, rq[c].related)
           reranked == RetrievalOrchestrator_rerank(rq[c].query, combined)
       IN  /\ rq' = [rq EXCEPT ![c].pc = "cache_set", ![c].reranked = reranked,
                                ![c].writes = @ + 1, ![c].wrote = <<reranked>>]
           /\ kvStr' = ValkeyClient_set(kvStr, RKey(c), reranked)
    /\ UNCHANGED <<notRetr, rhist>>

Rerank(c) ==
    /\ rq[c].pc = "rerank"
    /\ LET combined == merge_results(rq[c].dense, rq[c].bm25, rq[c].related)
       IN  rq' = [rq EXCEPT ![c].pc = "cache_set",
                            ![c].reranked = RetrievalOrchestrator_rerank(rq[c].query, combined)]
    /\ UNCHANGED <<notRetr, kvStr, rhist>>

LambdaParam == 7

\* _mmr, then cache.set: the SET command is sent and the store applies it;
\* the call goes on waiting for the reply
CacheSet(c) ==
    /\ rq[c].pc = "cache_set"
    /\ kvUp
    /\ LET diversified == mmr(rq[c].reranked, LambdaParam, rq[c].top_k)
       IN  /\ kvStr' = ValkeyClient_set(kvStr, RKey(c), diversified)
           /\ rq' = [rq EXCEPT ![c] = [IdleRetrieve EXCEPT !.pc = "cache_set_reply",
                         !.query = rq[c].query, !.top_k = rq[c].top_k,
                         !.calls = rq[c].calls, !.prev = rq[c].prev,
                         !.result = diversified, !.writes = rq[c].writes + 1,
                         !.wrote = <<diversified>>]]
    /\ UNCHANGED <<notRetr, rhist>>

\* the reply of SET arrives: cache.set returns, retrieve returns diversified
CacheSetReply(c) ==
    /\ rq[c].pc = "cache_set_reply"
    /\ rq' = [rq EXCEPT ![c].pc = "done"]
    /\ UNCHANGED <<notRetr, kvStr, rhist>>

\* cache.set raises a connection error: the list is computed but not returned
CacheSetRaises(c) ==
    /\ rq[c].pc = "cache_set"
    /\ ~kvUp
    /\ Raised(c, "kv")
    /\ UNCHANGED <<notRetr, kvStr, rhist>>

AwaitPcs == {"cache_get", "fanout", "expand", "rerank", "cache_set", "cache_set_reply"}

\* the task running retrieve() is cancelled while it waits in an await
Cancel(c) ==
    /\ rq[c].pc \in AwaitPcs
    /\ Raised(c, "cancelled")
    /\ UNCHANGED <<notRetr, kvStr, rhist>>

\* the exception reaches the caller of retrieve()
RetrieveRaise(c) ==
    /\ rq[c].pc = "raised"
    /\ rq' = [rq EXCEPT ![c] = IdleRetrieve]
    /\ UNCHANGED <<notRetr, kvStr, rhist>>

RetrieveReturn(c) ==
    /\ rq[c].pc = "done"
    /\ rhist' = [rhist EXCEPT ![RKey(c)] =
                    IF kvStr[RKey(c)] # <<>>
                    THEN <<[result |-> rq[c].result, calls |-> rq[c].calls]>>
                    ELSE <<>>]
    /\ rq' = [rq EXCEPT ![c] = IdleRetrieve]
    /\ UNCHANGED <<notRetr, kvStr>>

\* the TTL of a key runs out: the key is gone, and calls on either side of
\* this moment are no longer "within the TTL" of one another
Expire(key) ==
    /\ kvStr[key] # <<>>
    /\ kvStr' = [kvStr EXCEPT ![key] = <<>>]
    /\ rhist' = [rhist EXCEPT ![key] = <<>>]
    /\ rq' = [c \in DOMAIN rq |->
                IF rq[c].pc # "idle" /\ RKey(c) = key /\ rq[c].prev # <<>> THEN [rq[c] EXCEPT !.prev = <<>>] ELSE rq[c]]
    /\ UNCHANGED notRetr

----------------------------------------------------------------------------
\* core/system/memory.py: MemoryGuard
\*
\* Memory is counted in units of 512 MiB; min_free_bytes (1.5 GB) is 3 units.
\* An Optional[int] is <<>> for None and <<n>> for a value.

MinFreeBytes == 3

MemorySnapshot(free, mps_free) == [free |-> free, mps_free |-> mps_free]

Snapshots == {MemorySnapshot(f, m) : f \in {1, 4}, m \in {<<>>, <<1>>, <<4>>}}

is_under_pressure(snap) ==
    \/ snap.free < MinFreeBytes
    \/ (snap.mps_free # <<>> /\ snap.mps_free[1] < MinFreeBytes)

\* the operating system changes what the next snapshot will show
MemoryChange(snap) ==
    /\ snap \in Snapshots
    /\ snap # memory
    /\ memory' = snap
    /\ UNCHANGED <<notMM, locks, waiters, models, mm, mhist>>

----------------------------------------------------------------------------
\* apps/workers/model_manager.py: ModelManager

ModelNames == {"bge-m3", "whisper"}
MMCallers == {"t1", "t2"}
MaxGets == 3

Free == "Free"

IdleGet == [pc |-> "idle", name |-> "", slept |-> FALSE, sample |-> <<>>, loadMem |-> <<>>]

\* "async with lock" exit: the lock goes to the first waiter, which resumes
\* inside the with block, or becomes free
LockRelease(name) ==
    IF waiters[name] = <<>>
    THEN /\ locks' = [locks EXCEPT ![name] = Free]
         /\ UNCHANGED waiters
    ELSE /\ locks' = [locks EXCEPT ![name] = Head(waiters[name])]
         /\ waiters' = [waiters EXCEPT ![name] = Tail(@)]

Returned(h, name, handle) == [h EXCEPT !.returned[name] = @ \cup {handle}]

\* get_or_load that enters the body without taking the per-name lock
GetOrLoad_NoLock(c, name) ==
    /\ mm[c].pc = "idle"
    /\ mhist.started < MaxGets
    /\ IF models[name] # <<>>
       THEN /\ mhist' = Returned([mhist EXCEPT !.started = @ + 1], name, models[name][1])
            /\ UNCHANGED mm
       ELSE /\ mm' = [mm EXCEPT ![c] = [IdleGet EXCEPT !.pc = "wait", !.name = name]]
            /\ mhist' = [mhist EXCEPT !.started = @ + 1]
    /\ UNCHANGED <<notMM, locks, waiters, models, memory>>

\* get_or_load(name, loader) is called: the lock is taken at once when it is
\* free, and then a cached handle is returned without any await; a caller
\* that finds the lock held queues behind it
get_or_load(c, name) ==
    /\ mm[c].pc = "idle"
    /\ mhist.started < MaxGets
    /\ IF locks[name] # Free
       THEN /\ waiters' = [waiters EXCEPT ![name] = Append(@, c)]
            /\ mm' = [mm EXCEPT ![c] = [IdleGet EXCEPT !.pc = "blocked", !.name = name]]
            /\ mhist' = [mhist EXCEPT !.started = @ + 1, !.contended = @ \cup {name}]
            /\ UNCHANGED locks
       ELSE IF models[name] # <<>>
       THEN /\ mhist' = Returned([mhist EXCEPT !.started = @ + 1], name, models[name][1])
            /\ UNCHANGED <<locks, waiters, mm>>
       ELSE /\ locks' = [locks EXCEPT ![name] = c]
            /\ mm' = [mm EXCEPT ![c] = [IdleGet EXCEPT !.pc = "wait", !.name = name]]
            /\ mhist' = [mhist EXCEPT !.started = @ + 1]
            /\ UNCHANGED waiters
    /\ UNCHANGED <<notMM, models, memory>>

\* a queued caller that was handed the lock resumes: "if name in self._models"
LockAcquired(c) ==
    /\ mm[c].pc = "blocked"
    /\ locks[mm[c].name] = c
    /\ IF models[mm[c].name] # <<>>
       THEN /\ mhist' = Returned([mhist EXCEPT !.preUnload = @ \ {c}], mm[c].name,
                                      models[mm[c].name][1])
            /\ mm' = [mm EXCEPT ![c] = IdleGet]
            /\ LockRelease(mm[c].name)
       ELSE /\ mm' = [mm EXCEPT ![c].pc = "wait"]
            /\ UNCHANGED <<locks, waiters, mhist>>
    /\ UNCHANGED <<notMM, models, memory>>

\* wait_for_recovery that returns whatever the sample says
WaitForRecovery_IgnoresSample(c) ==
    /\ mm[c].pc = "wait"
    /\ mm' = [mm EXCEPT ![c].pc = "load", ![c].sample = <<is_under_pressure(memory)>>,
                        ![c].loadMem = <<memory>>]
    /\ mhist' = [mhist EXCEPT !.loads[mm[c].name] = @ + 1]
    /\ UNCHANGED <<notMM, locks, waiters, models, memory>>

\* an iteration of "while self.is_under_pressure():" with what follows it
\* without an await: either asyncio.sleep(2) starts, or wait_for_recovery
\* returns and loader() is invoked
wait_for_recovery(c) ==
    /\ mm[c].pc = "wait"
    /\ IF is_under_pressure(memory)
       THEN /\ mm' = [mm EXCEPT ![c].pc = "sleep", ![c].sample = <<TRUE>>, ![c].slept = TRUE]
            /\ UNCHANGED mhist
       ELSE /\ mm' = [mm EXCEPT ![c].pc = "load", ![c].sample = <<FALSE>>,
                               ![c].loadMem = <<memory>>]
            /\ mhist' = [mhist EXCEPT !.loads[mm[c].name] = @ + 1]
    /\ UNCHANGED <<notMM, locks, waiters, models, memory>>

\* asyncio.sleep(2) is over
SleepDone(c) ==
    /\ mm[c].pc = "sleep"
    /\ mm' = [mm EXCEPT ![c].pc = "wait"]
    /\ UNCHANGED <<notMM, locks, waiters, models, memory, mhist>>

\* the handle the n-th loader invocation for a name builds
Handle(name, n) == <<name, n>>

\* loader() returns: the handle is cached and returned, the lock released
LoaderReturn(c) ==
    /\ mm[c].pc = "load"
    /\ LET name == mm[c].name
           model == Handle(name, mhist.loads[name])
       IN  /\ models' = [models EXCEPT ![name] = <<model>>]
           /\ mhist' = Returned([mhist EXCEPT
                                     !.preUnload = @ \ {c},
                                     !.lateStore = IF c \in mhist.preUnload
                                                   THEN @ \cup {name} ELSE @ \ {name}],
                                 name, model)
           /\ LockRelease(name)
    /\ mm' = [mm EXCEPT ![c] = IdleGet]
    /\ UNCHANGED <<notMM, memory>>

\* a loader whose exception leaves the lock with the failed call
LoaderRaise_KeepsLock(c) ==
    /\ mm[c].pc = "load"
    /\ mhist' = [mhist EXCEPT !.failed = @ \cup {mm[c].name}, !.preUnload = @ \ {c}]
    /\ mm' = [mm EXCEPT ![c] = IdleGet]
    /\ UNCHANGED <<notMM, locks, waiters, models, memory>>

\* loader() raises: the exception leaves the with block, nothing is cached
LoaderRaise(c) ==
    /\ mm[c].pc = "load"
    /\ mhist' = [mhist EXCEPT !.failed = @ \cup {mm[c].name}, !.preUnload = @ \ {c}]
    /\ LockRelease(mm[c].name)
    /\ mm' = [mm EXCEPT ![c] = IdleGet]
    /\ UNCHANGED <<notMM, models, memory>>

\* unload(name): the handle is deleted when there is one; no lock is taken and
\* nothing is awaited, so the call returns in the step it was made in.
\* mhist.preUnload holds the get_or_load calls for name that are in flight now,
\* mhist.lateStore the names whose cached handle was stored by such a call
unload(name) ==
    /\ models' = [models EXCEPT ![name] = <<>>]
    /\ mhist' = [mhist EXCEPT
                    !.unloaded = @ \cup {name},
                    !.preUnload = @ \cup {c \in MMCallers : mm[c].pc # "idle" /\ mm[c].name = name},
                    !.lateStore = @ \ {name}]
    /\ UNCHANGED <<notMM, locks, waiters, mm, memory>>

----------------------------------------------------------------------------
\* apps/workers/orchestrator.py: the ingest queue and its worker

QUEUE_NAME == "ingest:documents"

QueueJobs == {pA, pAu, pImg, pMail}
MaxEnqueued == 2

Worker == "w1"

\* the key-value server goes away (connections are refused) and comes back;
\* its data outlives the outage
KvOutage ==
    /\ kvUp
    /\ kvUp' = FALSE
    /\ UNCHANGED <<ingestVars, retrVars, mmVars, queueVars, connVars, svcVars>>

KvRecover ==
    /\ ~kvUp
    /\ kvUp' = TRUE
    /\ UNCHANGED <<ingestVars, retrVars, mmVars, queueVars, connVars, svcVars>>

\* an enqueue at the right end of the list, where BRPOP takes
ValkeyClient_enqueue_Right(lists, queue, payload) ==
    [lists EXCEPT ![queue] = @ \o <<json_dumps(payload)>>]

\* ValkeyClient.enqueue: LPUSH of the JSON text
ValkeyClient_enqueue(lists, queue, payload) ==
    [lists EXCEPT ![queue] = <<json_dumps(payload)>> \o @]

\* a connector run, the ingest route or the seeding script enqueues a payload
Enqueue(payload) ==
    /\ kvUp
    /\ whist.enqueued < MaxEnqueued
    /\ kvList' = ValkeyClient_enqueue(kvList, QUEUE_NAME, payload)
    /\ whist' = [whist EXCEPT !.enqueued = @ + 1,
                              !.late = IF whist.failed # <<>> THEN @ + 1 ELSE @,
                              !.order = Append(@, payload.document.doc_id)]
    /\ UNCHANGED <<notQueue, wk>>

\* ValkeyClient.dequeue: BRPOP takes the rightmost element, or times out
Dequeue ==
    /\ wk.pc = "dequeue"
    /\ kvUp
    /\ IF kvList[QUEUE_NAME] # <<>>
       THEN LET data == kvList[QUEUE_NAME][Len(kvList[QUEUE_NAME])]
            IN  /\ kvList' = [kvList EXCEPT ![QUEUE_NAME] = SubSeq(@, 1, Len(@) - 1)]
                /\ wk' = [pc |-> "process", job |-> <<json_loads(data)>>]
       ELSE /\ wk' = [pc |-> "sleep", job |-> <<>>]
            /\ UNCHANGED kvList
    /\ UNCHANGED <<notQueue, whist>>

\* BRPOP raises a connection error: dequeue is called outside the try block,
\* the exception ends _queue_worker, "await consumer" re-raises it in
\* _run_forever and start() ends
DequeueRaises ==
    /\ wk.pc = "dequeue"
    /\ ~kvUp
    /\ wk' = [pc |-> "crashed", job |-> <<>>]
    /\ UNCHANGED <<notQueue, kvList, whist>>

\* "if not job": asyncio.sleep(1), continue
WorkerSleepDone ==
    /\ wk.pc = "sleep"
    /\ wk' = [wk EXCEPT !.pc = "dequeue"]
    /\ UNCHANGED <<notQueue, kvList, whist>>

\* await self._processor.process(job)
WorkerProcess ==
    /\ wk.pc = "process"
    /\ process(Worker, wk.job[1])
    /\ wk' = [wk EXCEPT !.pc = "processing"]
    /\ whist' = [whist EXCEPT !.passed = Append(@, wk.job[1].document.doc_id)]
    /\ UNCHANGED <<retrVars, mmVars, kvUp, connVars, svcVars, kvList>>

\* a step of the process() call the worker is waiting for
WorkerIngestStep ==
    /\ wk.pc = "processing"
    /\ IngestStep(Worker)

\* process() returned: next iteration of "while True"
WorkerProcessDone ==
    /\ wk.pc = "processing"
    /\ process_returns(Worker)
    /\ wk' = [pc |-> "dequeue", job |-> <<>>]
    /\ UNCHANGED <<retrVars, mmVars, kvUp, connVars, svcVars, kvList, whist>>

\* a worker without the try block: the exception of process() ends the loop
WorkerProcessFailed_Propagates ==
    /\ wk.pc = "processing"
    /\ process_raises(Worker)
    /\ wk' = [pc |-> "crashed", job |-> <<>>]
    /\ whist' = [whist EXCEPT !.failed = Append(@, wk.job[1])]
    /\ UNCHANGED <<retrVars, mmVars, kvUp, connVars, svcVars, kvList>>

\* "except Exception": logger.exception with the doc_id, next iteration
WorkerProcessFailed ==
    /\ wk.pc = "processing"
    /\ process_raises(Worker)
    /\ wk' = [pc |-> "dequeue", job |-> <<>>]
    /\ whist' = [whist EXCEPT !.failed = Append(@, wk.job[1]),
                              !.log = Append(@, wk.job[1].document.doc_id)]
    /\ UNCHANGED <<retrVars, mmVars, kvUp, connVars, svcVars, kvList>>

----------------------------------------------------------------------------
\* WorkerOrchestrator.start(): every connector gets an interval job of the
\* scheduler (max_instances = 1) and, besides, one run created directly with
\* asyncio.create_task. A run iterates connector.sync() and enqueues what it
\* yields.

Connectors == {"gmail", "drive"}
MaxTicks == 2
MaxInstances == 1

\* what a connector's sync() yields
SyncPayload(k) == IF k = "gmail" THEN pMail ELSE pA

\* for connector in self._connectors: asyncio.create_task(self._run_connector(connector))
DirectRunStart(k) ==
    /\ cn[k].direct = "created"
    /\ cn' = [cn EXCEPT ![k].direct = "running"]
    /\ UNCHANGED <<notConn, queueVars, pair>>

\* the interval trigger of job connector:<name> fires: the scheduler starts
\* _run_connector unless max_instances runs of the job are in progress, and
\* skips the tick otherwise
Tick(k) ==
    /\ cn[k].ticks < MaxTicks
    /\ cn' = [cn EXCEPT ![k].ticks = @ + 1,
                        ![k].job = IF cn[k].job < MaxInstances THEN @ + 1 ELSE @,
                        ![k].skipped = IF cn[k].job < MaxInstances THEN @ ELSE @ + 1]
    /\ UNCHANGED <<notConn, queueVars, pair>>

RunKinds == {"direct", "job"}

Running(k, kind) ==
    IF kind = "direct" THEN cn[k].direct = "running" ELSE cn[k].job > 0

Ended(k, kind) ==
    IF kind = "direct" THEN [cn EXCEPT ![k].direct = "done"]
    ELSE [cn EXCEPT ![k].job = @ - 1]

\* _run_connector: sync() yields a payload and the run enqueues it
RunEnqueue(k, kind) ==
    /\ Running(k, kind)
    /\ kvUp
    /\ Len(kvList[QUEUE_NAME]) < MaxEnqueued
    /\ kvList' = ValkeyClient_enqueue(kvList, QUEUE_NAME, SyncPayload(k))
    /\ whist' = [whist EXCEPT !.order = Append(@, SyncPayload(k).document.doc_id)]
    /\ UNCHANGED <<notConn, cn, pair, wk>>

\* _run_connector: enqueue raises, the exception ends the run
RunEnqueueRaises(k, kind) ==
    /\ Running(k, kind)
    /\ ~kvUp
    /\ cn' = Ended(k, kind)
    /\ UNCHANGED <<notConn, queueVars, pair>>

\* _run_connector: sync() is exhausted, the run returns
RunDone(k, kind) ==
    /\ Running(k, kind)
    /\ cn' = Ended(k, kind)
    /\ UNCHANGED <<notConn, queueVars, pair>>

----------------------------------------------------------------------------
\* Specifications

Absent == "Absent"

InitIngestFor(callers) ==
    /\ gNodes = {}
    /\ gEdges = {}
    /\ gProps = {}
    /\ gBlockVector = {}
    /\ vectors = {}
    /\ kvHash = [k \in {"dedupe:simhash", "dedupe:phash"} |-> {}]
    /\ objects = {}
    /\ call = [c \in callers |-> IdleCall]
    /\ hist = [started |-> 0,
               atStart |-> [c \in callers |->
                   [nodes |-> {}, edges |-> {}, vectors |-> {},
                    kv |-> [k \in {"dedupe:simhash", "dedupe:phash"} |-> {}]]],
               atBundle |-> [c \in callers |-> [nodes |-> {}, edges |-> {}, props |-> {}]],
               prev |-> <<>>]

InitIngest == InitIngestFor({"w1"})

----------------------------------------------------------------------------
\* apps/workers/embeddings/rerank.py: RerankerService.rerank, one step per await

\* settings.reranker_model, settings.reranker_fallback_model
PrimaryReranker == "BAAI/bge-reranker-v2-m3"
FallbackReranker == "cross-encoder/ms-marco-MiniLM-L-6-v2"

\* batch_size = 16
RerankBatchSize == 16
MaxPairs == 34

RerankPassages == {"alpha beta", "alpha gamma", "delta"}
RerankQuery == "alpha"

\* the candidate lists: n pairs (doc_id, passage), the passages repeating a
\* pattern of up to three passages; the doc_id of a pair is its position
PassagePatterns ==
    {<<a>> : a \in RerankPassages} \cup {<<a, b>> : a, b \in RerankPassages}
        \cup {<<a, b, c>> : a, b, c \in RerankPassages}
RerankPairs(n, pattern) ==
    [i \in 1..n |-> [doc_id |-> i, passage |-> pattern[((i - 1) % Len(pattern)) + 1]]]

\* sigmoid(logit) of (query, passage) under a model, in thousandths
CrossEncoder(name, query, passage) ==
    IF name = PrimaryReranker THEN ModelScore(query, passage)
    ELSE CASE passage = "alpha beta" -> 800
           [] passage = "alpha gamma" -> 400
           [] OTHER -> 400

\* _score_batch: logits.squeeze() drops every dimension of size one, so a batch
\* of one pair gives a scalar and tolist() a float instead of a list
\* (a float has no items: the model writes it as the list of none)
Scalar == <<>>
score_batch(name, query, batch) ==
    IF Len(batch) = 1 THEN Scalar
    ELSE [i \in 1..Len(batch) |-> CrossEncoder(name, query, batch[i].passage)]

IdleRerank ==
    [pc |-> "idle", pairs |-> <<>>, i |-> 0, model |-> "None", scores |-> <<>>,
     results |-> <<>>, log |-> <<>>, loads |-> 0, error |-> "None"]

\* pairs[i : i + batch_size], i counted from 0
RerankBatch(l) ==
    SubSeq(l.pairs, l.i + 1,
           IF l.i + RerankBatchSize <= Len(l.pairs) THEN l.i + RerankBatchSize
           ELSE Len(l.pairs))

\* one scoring attempt, as the history keeps it
Scored(l, handler, ok) ==
    Append(l.log, [batch |-> l.i \div RerankBatchSize, model |-> l.model,
                   handler |-> handler, ok |-> ok])

\* pairs = list(candidates); if not pairs: return []
RerankCall(pairs) ==
    /\ rr.pc = "idle"
    /\ rr' = IF pairs = <<>> THEN [rr EXCEPT !.pc = "done"]
             ELSE [rr EXCEPT !.pc = "load", !.pairs = pairs]
    /\ UNCHANGED <<notSvc, em, qp, ck, sy>>

\* tokenizer, model = await self._load(self._primary_model)
RerankLoad ==
    /\ rr.pc = "load"
    /\ rr' = [rr EXCEPT !.pc = "score", !.model = PrimaryReranker]
    /\ UNCHANGED <<notSvc, em, qp, ck, sy>>

\* the registry raises (the loader failed, the wait for memory timed out)
RerankLoadRaises ==
    /\ rr.pc \in {"load", "fallback_load"}
    /\ rr' = [rr EXCEPT !.pc = "raised", !.error = "load"]
    /\ UNCHANGED <<notSvc, em, qp, ck, sy>>

\* try: scores = await self._score_batch(tokenizer, model, query, batch)
ScoreBatch ==
    /\ rr.pc = "score"
    /\ rr' = [rr EXCEPT !.pc = "zip",
                        !.scores = score_batch(rr.model, RerankQuery, RerankBatch(rr)),
                        !.log = Scored(rr, "try", TRUE)]
    /\ UNCHANGED <<notSvc, em, qp, ck, sy>>

\* except Exception: the model raised while scoring the batch
ScoreBatchRaises ==
    /\ rr.pc = "score"
    /\ rr' = [rr EXCEPT !.pc = "fallback_load", !.log = Scored(rr, "try", FALSE)]
    /\ UNCHANGED <<notSvc, em, qp, ck, sy>>

\* tokenizer, model = await self._load(self._fallback_model)
FallbackLoad ==
    /\ rr.pc = "fallback_load"
    /\ rr' = [rr EXCEPT !.pc = "fallback_score", !.model = FallbackReranker,
                        !.loads = @ + 1]
    /\ UNCHANGED <<notSvc, em, qp, ck, sy>>

\* scores = await self._score_batch(tokenizer, model, query, batch), in the handler
FallbackScore ==
    /\ rr.pc = "fallback_score"
    /\ rr' = [rr EXCEPT !.pc = "zip",
                        !.scores = score_batch(rr.model, RerankQuery, RerankBatch(rr)),
                        !.log = Scored(rr, "except", TRUE)]
    /\ UNCHANGED <<notSvc, em, qp, ck, sy>>

\* the fallback raised inside the handler: nothing catches it
FallbackScoreRaises ==
    /\ rr.pc = "fallback_score"
    /\ rr' = [rr EXCEPT !.pc = "raised", !.error = "score",
                        !.log = Scored(rr, "except", FALSE)]
    /\ UNCHANGED <<notSvc, em, qp, ck, sy>>

\* for (doc_id, passage), score in zip(batch, scores): results.append(...);
\* after the last batch results.sort(key = score, reverse = True); return results
Zip ==
    /\ rr.pc = "zip"
    /\ LET batch == RerankBatch(rr)
           results == rr.results \o
               [k \in 1..Len(batch) |->
                   [doc_id |-> batch[k].doc_id, passage |-> batch[k].passage,
                    score |-> rr.scores[k]]]
           next == rr.i + RerankBatchSize
       IN  rr' = IF rr.scores = Scalar
                 THEN [rr EXCEPT !.pc = "raised", !.error = "TypeError"]
                 ELSE IF next < Len(rr.pairs)
                 THEN [rr EXCEPT !.pc = "score", !.i = next, !.results = results,
                                 !.scores = <<>>]
                 ELSE [rr EXCEPT !.pc = "done", !.i = next, !.scores = <<>>,
                                 !.results = SortDesc(results)]
    /\ UNCHANGED <<notSvc, em, qp, ck, sy>>

----------------------------------------------------------------------------
\* apps/workers/embeddings/text.py: TextEmbeddingService.embed, one step per await

MaxTexts == 20

\* batch_size = 8
EmbedBatchSize == 8

IdleEmbed ==
    [pc |-> "idle", texts |-> <<>>, pos |-> 0, batch_size |-> EmbedBatchSize,
     batches |-> <<>>, sizes |-> <<>>, checks |-> <<>>, limits |-> <<EmbedBatchSize>>]

\* a limit that halves without a floor
NextBatchSize_NoFloor(batch_size, pressure) ==
    IF pressure THEN batch_size \div 2 ELSE batch_size

\* if memory_guard.is_under_pressure(): batch_size = max(2, batch_size // 2)
NextBatchSize(batch_size, pressure) ==
    IF pressure THEN (IF batch_size \div 2 > 2 THEN batch_size \div 2 ELSE 2)
    ELSE batch_size

\* the texts the loop has appended to batch when len(batch) >= batch_size first
\* holds: one text at least, batch_size texts when the limit is above one
FullBatch(l) == IF l.batch_size > 1 THEN l.batch_size ELSE 1

\* the vectors of texts[pos + 1 .. pos + n], one per text, in order
Embedded(l, n) == [k \in 1..n |-> <<"vec", l.texts[l.pos + k]>>]

EmbedCall(n) ==
    /\ em.pc = "idle"
    /\ em' = [em EXCEPT !.pc = "load", !.texts = [i \in 1..n |-> i]]
    /\ UNCHANGED <<notSvc, rr, qp, ck, sy>>

\* tokenizer, model = await self._load()
EmbedLoad ==
    /\ em.pc = "load"
    /\ em' = [em EXCEPT !.pc = "loop"]
    /\ UNCHANGED <<notSvc, rr, qp, ck, sy>>

EmbedLoadRaises ==
    /\ em.pc = "load"
    /\ em' = [em EXCEPT !.pc = "raised"]
    /\ UNCHANGED <<notSvc, rr, qp, ck, sy>>

\* the loop body up to and including a full batch: the batch is handed to the
\* model, its vectors are kept, and the guard is asked once
EmbedBatch ==
    /\ em.pc = "loop"
    /\ Len(em.texts) - em.pos >= FullBatch(em)
    /\ LET n == FullBatch(em)
           pressure == is_under_pressure(memory)
           limit == NextBatchSize(em.batch_size, pressure)
       IN  em' = [em EXCEPT !.pos = @ + n,
                            !.batches = @ \o Embedded(em, n),
                            !.sizes = Append(@, [n |-> n, last |-> FALSE]),
                            !.checks = Append(@, pressure),
                            !.batch_size = limit,
                            !.limits = Append(@, limit)]
    /\ UNCHANGED <<notSvc, rr, qp, ck, sy>>

\* the model raises on a batch: embed() has no handler
EmbedBatchRaises ==
    /\ em.pc = "loop"
    /\ em.pos < Len(em.texts)
    /\ em' = [em EXCEPT !.pc = "raised"]
    /\ UNCHANGED <<notSvc, rr, qp, ck, sy>>

\* the input ran out: if batch: embed what is left; return batches
EmbedReturn ==
    /\ em.pc = "loop"
    /\ Len(em.texts) - em.pos < FullBatch(em)
    /\ LET n == Len(em.texts) - em.pos
       IN  em' = IF n = 0 THEN [em EXCEPT !.pc = "done"]
                 ELSE [em EXCEPT !.pc = "done", !.pos = @ + n,
                                 !.batches = @ \o Embedded(em, n),
                                 !.sizes = Append(@, [n |-> n, last |-> TRUE])]
    /\ UNCHANGED <<notSvc, rr, qp, ck, sy>>

----------------------------------------------------------------------------
\* apps/api/services/planner.py: QueryPlanner
\*
\* A query is a sequence of characters, so that "word in query.lower()" is the
\* substring test it is and the regular expressions read character classes.

UpperLetters ==
    <<"A", "B", "C", "D", "E", "F", "G", "H", "I", "J", "K", "L", "M", "N", "O", "P", "Q", "R", "S", "T", "U", "V", "W", "X", "Y", "Z">>
LowerLetters ==
    <<"a", "b", "c", "d", "e", "f", "g", "h", "i", "j", "k", "l", "m", "n", "o", "p", "q", "r", "s", "t", "u", "v", "w", "x", "y", "z">>
Digits == {"0", "1", "2", "3", "4", "5", "6", "7", "8", "9"}

IsUpper(c) == \E i \in 1..26 : UpperLetters[i] = c
IsLower(c) == \E i \in 1..26 : LowerLetters[i] = c

\* str.lower(), character by character
LowerChar(c) ==
    IF IsUpper(c) THEN LowerLetters[CHOOSE i \in 1..26 : UpperLetters[i] = c] ELSE c
QueryLower(query) == [i \in 1..Len(query) |-> LowerChar(query[i])]

\* word in text
Contains(text, word) ==
    \E i \in 1..(Len(text) - Len(word) + 1) : SubSeq(text, i, i + Len(word) - 1) = word

\* the word lists of classify_intent, in the order of its tests
TemporalWords ==
    {<<"w", "h", "e", "n">>,
     <<"s", "c", "h", "e", "d", "u", "l", "e">>,
     <<"c", "a", "l", "e", "n", "d", "a", "r">>,
     <<"d", "a", "t", "e">>}
EntityWords ==
    {<<"w", "h", "o">>,
     <<"p", "e", "r", "s", "o", "n">>}
AnalyticalWords ==
    {<<"c", "o", "m", "p", "a", "r", "e">>,
     <<"a", "n", "a", "l", "y", "s", "i", "s">>,
     <<"w", "h", "y">>,
     <<"h", "o", "w">>}

\* TEMPORAL_KEYWORDS = {"when", "schedule", "date", "time", "timeline", "timeline"}
TEMPORAL_KEYWORDS ==
    {<<"w", "h", "e", "n">>,
     <<"s", "c", "h", "e", "d", "u", "l", "e">>,
     <<"d", "a", "t", "e">>,
     <<"t", "i", "m", "e">>,
     <<"t", "i", "m", "e", "l", "i", "n", "e">>}

\* the tests of classify_intent with the entity test first
classify_intent_EntityFirst(query) ==
    IF \E word \in EntityWords : Contains(QueryLower(query), word) THEN "entity"
    ELSE IF \E word \in TemporalWords : Contains(QueryLower(query), word) THEN "temporal"
    ELSE IF \E word \in AnalyticalWords : Contains(QueryLower(query), word) THEN "analytical"
    ELSE "factual"

classify_intent(query) ==
    IF \E word \in TemporalWords : Contains(QueryLower(query), word) THEN "temporal"
    ELSE IF \E word \in EntityWords : Contains(QueryLower(query), word) THEN "entity"
    ELSE IF \E word \in AnalyticalWords : Contains(QueryLower(query), word) THEN "analytical"
    ELSE "factual"

\* the end of the longest run of [a-z] that starts at i (i - 1 when there is none)
RECURSIVE LowerRun(_, _)
LowerRun(q, i) ==
    IF i <= Len(q) /\ IsLower(q[i]) THEN LowerRun(q, i + 1) ELSE i - 1

\* [A-Z][a-z]+ at i: the end of the match, 0 when there is none
NameEnd(q, i) ==
    IF i <= Len(q) /\ IsUpper(q[i]) /\ LowerRun(q, i + 1) > i THEN LowerRun(q, i + 1) ELSE 0

\* (?:\s[A-Z][a-z]+)* after a match that ends at e
RECURSIVE MoreNames(_, _)
MoreNames(q, e) ==
    IF e + 1 <= Len(q) /\ q[e + 1] = " " /\ NameEnd(q, e + 2) > 0
    THEN MoreNames(q, NameEnd(q, e + 2))
    ELSE e

\* re.findall(r"[A-Z][a-z]+(?:\s[A-Z][a-z]+)*", query), scanning from i
RECURSIVE FindNames(_, _)
FindNames(q, i) ==
    IF i > Len(q) THEN <<>>
    ELSE IF NameEnd(q, i) > 0
         THEN <<SubSeq(q, i, MoreNames(q, NameEnd(q, i)))>>
                  \o FindNames(q, MoreNames(q, NameEnd(q, i)) + 1)
    ELSE FindNames(q, i + 1)

extract_entities(query) == FindNames(query, 1)

\* \d{4}-\d{2}-\d{2} at i
IsDateAt(q, i) ==
    /\ i + 9 <= Len(q)
    /\ \A k \in {0, 1, 2, 3, 5, 6, 8, 9} : q[i + k] \in Digits
    /\ q[i + 4] = "-" /\ q[i + 7] = "-"

\* re.findall(r"(\d{4}-\d{2}-\d{2})", query), scanning from i
RECURSIVE FindDates(_, _)
FindDates(q, i) ==
    IF i > Len(q) THEN <<>>
    ELSE IF IsDateAt(q, i) THEN <<SubSeq(q, i, i + 9)>> \o FindDates(q, i + 10)
    ELSE FindDates(q, i + 1)

DigitValue(c) ==
    CASE c = "0" -> 0 [] c = "1" -> 1 [] c = "2" -> 2 [] c = "3" -> 3 [] c = "4" -> 4
      [] c = "5" -> 5 [] c = "6" -> 6 [] c = "7" -> 7 [] c = "8" -> 8 [] c = "9" -> 9

DaysIn(year, month) ==
    IF month = 2 THEN (IF year % 4 = 0 /\ (year % 100 # 0 \/ year % 400 = 0) THEN 29 ELSE 28)
    ELSE IF month \in {4, 6, 9, 11} THEN 30 ELSE 31

\* pendulum.parse accepts the text: a month of the year and a day of that month
ParsesAsDate(d) ==
    LET year == 1000 * DigitValue(d[1]) + 100 * DigitValue(d[2])
                    + 10 * DigitValue(d[3]) + DigitValue(d[4])
        month == 10 * DigitValue(d[6]) + DigitValue(d[7])
        day == 10 * DigitValue(d[9]) + DigitValue(d[10])
    IN  month \in 1..12 /\ day >= 1 /\ day <= DaysIn(year, month)

\* pendulum.parse(text).to_iso8601_string(): midnight, UTC
DateIso(d) == d \o <<"T00:00:00Z">>

\* the clock: pendulum.now() as year, month, day
Nows == {[year |-> 2026, month |-> 1, day |-> 15], [year |-> 2026, month |-> 3, day |-> 31]}

\* now.subtract(months = 1): the day is clipped to the length of the month
SubtractMonth(now) ==
    LET year == IF now.month = 1 THEN now.year - 1 ELSE now.year
        month == IF now.month = 1 THEN 12 ELSE now.month - 1
    IN  [year |-> year, month |-> month,
         day |-> IF now.day > DaysIn(year, month) THEN DaysIn(year, month) ELSE now.day]

NowIso(t) == <<ToString(t.year), "-", ToString(t.month), "-", ToString(t.day), "T">>

\* Optional[Dict]: <<>> is None
extract_time_range(query, now) ==
    LET date_matches == FindDates(query, 1)
    IN  IF date_matches # <<>>
        THEN <<[start |-> DateIso(date_matches[1]),
                end |-> DateIso(date_matches[Len(date_matches)])]>>
        ELSE IF \E keyword \in TEMPORAL_KEYWORDS : Contains(QueryLower(query), keyword)
        THEN <<[start |-> NowIso(SubtractMonth(now)), end |-> NowIso(now)]>>
        ELSE <<>>

\* the dates of the query that extract_time_range hands to pendulum.parse
ParsedDates(query) ==
    LET date_matches == FindDates(query, 1)
    IN  IF date_matches = <<>> THEN {} ELSE {date_matches[1], date_matches[Len(date_matches)]}

\* filters: a set of <<key, value>>
QueryPlan(query, now) ==
    LET time_range == extract_time_range(query, now)
    IN  [intent |-> classify_intent(query),
         filters |-> IF time_range # <<>>
                     THEN {<<"time_range", time_range[1].start \o <<"|">> \o time_range[1].end>>}
                     ELSE {},
         entities |-> extract_entities(query),
         time_range |-> time_range]

\* the queries: up to MaxWords of these words, a blank between two
MaxWords == 2
QueryWords ==
    {<<"W", "h", "e", "n">>,
     <<"c", "a", "l", "e", "n", "d", "a", "r">>,
     <<"W", "h", "o">>,
     <<"S", "h", "o", "w">>,
     <<"w", "h", "y">>,
     <<"A", "l", "i", "c", "e">>,
     <<"p", "e", "r", "s", "o", "n">>,
     <<"u", "p", "d", "a", "t", "e">>,
     <<"t", "i", "m", "e">>,
     <<"2", "0", "2", "4", "-", "0", "1", "-", "0", "5">>,
     <<"2", "0", "2", "4", "-", "0", "2", "-", "3", "0">>}
RECURSIVE QueriesOf(_)
QueriesOf(n) ==
    IF n = 1 THEN QueryWords
    ELSE QueriesOf(n - 1) \cup {q \o <<" ">> \o w : q \in QueriesOf(n - 1), w \in QueryWords}
PlannerQueries == QueriesOf(MaxWords)

IdlePlan == [pc |-> "idle", query |-> <<>>, plan |-> <<>>]

\* plan(query) returns
plan(query, now) ==
    /\ qp.pc = "idle"
    /\ \A d \in ParsedDates(query) : ParsesAsDate(d)
    /\ qp' = [pc |-> "done", query |-> query, plan |-> <<QueryPlan(query, now)>>]
    /\ UNCHANGED <<notSvc, rr, em, ck, sy>>

\* pendulum.parse raises on a text that is no date: plan(query) raises
planRaises(query) ==
    /\ qp.pc = "idle"
    /\ \E d \in ParsedDates(query) : ~ParsesAsDate(d)
    /\ qp' = [pc |-> "raised", query |-> query, plan |-> <<>>]
    /\ UNCHANGED <<notSvc, rr, em, ck, sy>>

----------------------------------------------------------------------------
\* connectors/state_store.py, connectors/local_fs.py, connectors/imap.py,
\* connectors/drive.py: sync() and the checkpoint of a connector, consumed by
\* _run_connector of apps/workers/orchestrator.py

SyncConnectors == {"local_fs", "generic_imap", "google_drive"}

\* the number of connector runs of one behaviour, the largest mtime of a
\* watched file, the largest UID of the mailbox, the length of the change
\* feed of the drive, the number of changes of one page of the feed
MaxSyncRuns == 2
MaxMtime == 2
MaxUid == 2
MaxChanges == 2
PageSize == 1

\* settings.local_watch_paths, in the order rglob lists the files
WatchedFiles == <<"a.md", "b.md">>

\* f"connector:{connector_name}:state"
StateKey(name) == "connector:" \o name \o ":state"

\* load_state: valkey_client.get(key), "state or {}"; <<>> is the empty dict
load_state(name) ==
    IF ck[StateKey(name)] # <<>> THEN <<json_loads(ck[StateKey(name)])>> ELSE <<>>

\* save_state: valkey_client.set(key, state), with the default ttl_seconds
save_state(store, name, state) == ValkeyClient_set(store, StateKey(name), state)

\* state.get("files", {}), a dict as the set of its <<path, mtime>> items
KnownFiles(state) == IF state = <<>> THEN {} ELSE state[1].files
\* state.get("last_uid", 0)
LastUid(state) == IF state = <<>> THEN 0 ELSE state[1].last_uid
\* state.get("start_page_token"), 0 for None
StartPageToken(state) == IF state = <<>> THEN 0 ELSE state[1].start_page_token

\* a run of _run_connector: the locals of sync() and, as history, what the
\* run yielded, enqueued and saved
IdleSync ==
    [pc |-> "idle", state |-> <<>>, expected |-> <<>>, loaded |-> FALSE, idx |-> 1,
     new_files |-> {}, todo |-> <<>>, newest_uid |-> 0, current_token |-> 0,
     fetch |-> FALSE, new_token |-> 0, item |-> "", toSave |-> <<>>,
     yielded |-> <<>>, enqueued |-> <<>>, saves |-> 0, lateYield |-> FALSE,
     prevFailed |-> FALSE, missed |-> {}]

\* SyncResult of an item, as far as the queue is concerned
SyncResult(k, item) == [document |-> [doc_id |-> k \o ":" \o item]]

\* the items the stored checkpoint does not cover
Due(k) ==
    CASE k = "local_fs" ->
            {f \in Range(WatchedFiles) :
                ~\E e \in KnownFiles(load_state(k)) : e[1] = f /\ e[2] >= sy.fs[f]}
      [] k = "generic_imap" -> {ToString(u) : u \in (LastUid(load_state(k)) + 1)..sy.inbox}
      [] k = "google_drive" ->
            IF StartPageToken(load_state(k)) = 0 THEN {}
            ELSE {ToString(c) : c \in StartPageToken(load_state(k))..sy.changes}

\* an exception leaves _run_connector: the generator is closed where it stood
SyncFailed(k, r) ==
    [r EXCEPT !.pc = "failed", !.missed = Due(k) \ Range(r.enqueued)]

SetRun(k, r) == sy' = [sy EXCEPT !.run[k] = r]

NewRun(k) ==
    [IdleSync EXCEPT !.prevFailed = (sy.run[k].pc = "failed"),
                     !.missed = IF sy.run[k].pc = "failed" THEN sy.run[k].missed ELSE {}]

\* _run_connector calls connector.sync(): state = await load_state(self.name)
SyncStart(k) ==
    /\ \A j \in SyncConnectors : sy.run[j].pc \in {"idle", "done", "failed"}
    /\ sy.runs < MaxSyncRuns
    /\ kvUp
    /\ LET st == load_state(k)
           r0 == [NewRun(k) EXCEPT !.state = st, !.expected = sy.lastSaved[k],
                                   !.loaded = TRUE]
           r == CASE k = "local_fs" -> [r0 EXCEPT !.pc = "running"]
                  [] k = "generic_imap" -> [r0 EXCEPT !.pc = "search", !.newest_uid = LastUid(st)]
                  [] k = "google_drive" ->
                        IF StartPageToken(st) = 0 THEN [r0 EXCEPT !.pc = "get_token"]
                        ELSE [r0 EXCEPT !.pc = "running", !.fetch = TRUE,
                                        !.current_token = StartPageToken(st)]
       IN  sy' = [sy EXCEPT !.runs = @ + 1, !.run[k] = r]
    /\ UNCHANGED <<notSvc, rr, em, qp, ck>>

\* load_state raises: the key-value store is down
SyncStartRaises(k) ==
    /\ \A j \in SyncConnectors : sy.run[j].pc \in {"idle", "done", "failed"}
    /\ sy.runs < MaxSyncRuns
    /\ ~kvUp
    /\ sy' = [sy EXCEPT !.runs = @ + 1, !.run[k] = SyncFailed(k, NewRun(k))]
    /\ UNCHANGED <<notSvc, rr, em, qp, ck>>

\* local_fs lines 26-33: the files from position i on, up to the first one
\* that is new or newer than the checkpoint says
RECURSIVE ScanFrom(_, _, _)
ScanFrom(i, known, new_files) ==
    IF i > Len(WatchedFiles) THEN [idx |-> i, new_files |-> new_files, item |-> ""]
    ELSE LET f == WatchedFiles[i]
             mtime == sy.fs[f]
             seen == new_files \cup {<<f, mtime>>}
         IN  IF \E e \in known : e[1] = f /\ e[2] >= mtime
             THEN ScanFrom(i + 1, known, seen)
             ELSE [idx |-> i + 1, new_files |-> seen, item |-> f]

\* yield SyncResult(...)
Yield(r, item) ==
    [r EXCEPT !.pc = "yielded", !.item = item, !.yielded = Append(@, item),
              !.lateYield = @ \/ r.saves > 0]

\* the generator runs to its next yield, or past its loop to save_state
SyncNextOf(k, r) ==
    CASE k = "local_fs" ->
            LET s == ScanFrom(r.idx, KnownFiles(r.state), r.new_files)
                r1 == [r EXCEPT !.idx = s.idx, !.new_files = s.new_files]
            IN  IF s.item = ""
                THEN [r1 EXCEPT !.pc = "save", !.toSave = <<[files |-> s.new_files]>>]
                ELSE Yield(r1, s.item)
      [] k = "generic_imap" ->
            IF r.todo = <<>>
            THEN IF r.newest_uid > LastUid(r.state)
                 THEN [r EXCEPT !.pc = "save", !.toSave = <<[last_uid |-> r.newest_uid]>>]
                 ELSE [r EXCEPT !.pc = "done"]
            ELSE Yield([r EXCEPT !.todo = Tail(@),
                                 !.newest_uid = Max2(@, Head(r.todo))],
                       ToString(Head(r.todo)))
      [] k = "google_drive" ->
            IF r.todo = <<>>
            THEN [r EXCEPT !.pc = "save",
                           !.toSave = <<[start_page_token |-> r.new_token]>>]
            ELSE Yield([r EXCEPT !.todo = Tail(@)], ToString(Head(r.todo)))

SyncNext(k) ==
    /\ sy.run[k].pc = "running"
    /\ k = "google_drive" => (sy.run[k].todo # <<>> \/ ~sy.run[k].fetch)
    /\ SetRun(k, SyncNextOf(k, sy.run[k]))
    /\ UNCHANGED <<notSvc, rr, em, qp, ck>>

\* imap lines 41-47: UID SEARCH for the messages after last_uid
SyncSearch(k) ==
    /\ k = "generic_imap"
    /\ sy.run[k].pc = "search"
    /\ LET last == LastUid(sy.run[k].state)
       IN  SetRun(k, [sy.run[k] EXCEPT !.pc = "running",
                                       !.todo = [i \in 1..(sy.inbox - last) |-> last + i]])
    /\ UNCHANGED <<notSvc, rr, em, qp, ck>>

\* drive lines 39-41: no token in the checkpoint, getStartPageToken
DriveGetToken(k) ==
    /\ k = "google_drive"
    /\ sy.run[k].pc = "get_token"
    /\ SetRun(k, [sy.run[k] EXCEPT !.pc = "first_save", !.fetch = TRUE,
                                   !.current_token = sy.changes + 1,
                                   !.toSave = <<[start_page_token |-> sy.changes + 1]>>])
    /\ UNCHANGED <<notSvc, rr, em, qp, ck>>

\* drive lines 46-48 and 77-82: changes().list(pageToken=current_token)
DriveList(k) ==
    /\ k = "google_drive"
    /\ sy.run[k].pc = "running"
    /\ sy.run[k].todo = <<>> /\ sy.run[k].fetch
    /\ LET t == sy.run[k].current_token
           last == IF t + PageSize - 1 <= sy.changes THEN t + PageSize - 1 ELSE sy.changes
           more == sy.changes > last
       IN  SetRun(k, [sy.run[k] EXCEPT
                        !.todo = [i \in 1..(last - t + 1) |-> t + i - 1],
                        !.current_token = IF more THEN last + 1 ELSE 0,
                        !.fetch = more,
                        !.new_token = IF more THEN @ ELSE sy.changes + 1])
    /\ UNCHANGED <<notSvc, rr, em, qp, ck>>

\* _run_connector: await valkey_client.enqueue(QUEUE_NAME, payload)
SyncEnqueue(k) ==
    /\ sy.run[k].pc = "yielded"
    /\ kvUp
    /\ kvList' = ValkeyClient_enqueue(kvList, QUEUE_NAME, SyncResult(k, sy.run[k].item))
    /\ whist' = [whist EXCEPT
                    !.order = Append(@, SyncResult(k, sy.run[k].item).document.doc_id)]
    /\ SetRun(k, [sy.run[k] EXCEPT !.pc = "running", !.enqueued = Append(@, sy.run[k].item)])
    /\ UNCHANGED <<ingestVars, retrVars, mmVars, kvUp, connVars, wk, rr, em, qp, ck>>

SyncEnqueueRaises(k) ==
    /\ sy.run[k].pc = "yielded"
    /\ ~kvUp
    /\ SetRun(k, SyncFailed(k, sy.run[k]))
    /\ UNCHANGED <<notSvc, rr, em, qp, ck>>

\* sync() raises between two yields: a file that cannot be read, the network
SyncRaises(k) ==
    /\ sy.run[k].pc \in {"running", "search", "get_token"}
    /\ SetRun(k, SyncFailed(k, sy.run[k]))
    /\ UNCHANGED <<notSvc, rr, em, qp, ck>>

\* await save_state(self.name, ...): after the loop, and in the first run of
\* the drive connector before its loop
SyncSave(k) ==
    /\ sy.run[k].pc \in {"save", "first_save"}
    /\ kvUp
    /\ ck' = save_state(ck, k, sy.run[k].toSave[1])
    /\ sy' = [sy EXCEPT !.lastSaved[k] = sy.run[k].toSave,
                        !.run[k] = [@ EXCEPT !.saves = @ + 1,
                                             !.pc = IF @ = "first_save" THEN "running"
                                                    ELSE "done"]]
    /\ UNCHANGED <<notSvc, rr, em, qp>>

SyncSaveRaises(k) ==
    /\ sy.run[k].pc \in {"save", "first_save"}
    /\ ~kvUp
    /\ SetRun(k, SyncFailed(k, sy.run[k]))
    /\ UNCHANGED <<notSvc, rr, em, qp, ck>>

\* 86400 seconds have passed since the set of the key: the store drops it
ExpireCheckpoint(k) ==
    /\ ck[StateKey(k)] # <<>>
    /\ ck' = [ck EXCEPT ![StateKey(k)] = <<>>]
    /\ UNCHANGED <<notSvc, rr, em, qp, sy>>

\* the world of the connectors: a watched file is written, a mail arrives, a
\* file of the drive changes
Touch(f) ==
    /\ sy.fs[f] < MaxMtime
    /\ sy' = [sy EXCEPT !.fs[f] = @ + 1]
    /\ UNCHANGED <<notSvc, rr, em, qp, ck>>

Deliver ==
    /\ sy.inbox < MaxUid
    /\ sy' = [sy EXCEPT !.inbox = @ + 1]
    /\ UNCHANGED <<notSvc, rr, em, qp, ck>>

DriveChange ==
    /\ sy.changes < MaxChanges
    /\ sy' = [sy EXCEPT !.changes = @ + 1]
    /\ UNCHANGED <<notSvc, rr, em, qp, ck>>

----------------------------------------------------------------------------
InitRetr ==
    /\ kvStr = [k \in CacheKeys |-> <<>>]
    /\ rq = [c \in {"r1"} |-> IdleRetrieve]
    /\ rhist = [k \in CacheKeys |-> <<>>]

InitMM ==
    /\ locks = [n \in ModelNames |-> Free]
    /\ waiters = [n \in ModelNames |-> <<>>]
    /\ models = [n \in ModelNames |-> <<>>]
    /\ mm = [c \in MMCallers |-> IdleGet]
    /\ memory = MemorySnapshot(4, <<>>)
    /\ mhist = [started |-> 0, loads |-> [n \in ModelNames |-> 0],
                returned |-> [n \in ModelNames |-> {}], failed |-> {}, unloaded |-> {},
                contended |-> {}, preUnload |-> {}, lateStore |-> {}]

InitQueue ==
    /\ kvList = [k \in {QUEUE_NAME} |-> <<>>]
    /\ wk = [pc |-> "dequeue", job |-> <<>>]
    /\ whist = [enqueued |-> 0, late |-> 0, passed |-> <<>>, failed |-> <<>>, log |-> <<>>,
                order |-> <<>>]

InitConn ==
    /\ cn = [k \in Connectors |-> [direct |-> "created", job |-> 0, ticks |-> 0, skipped |-> 0]]
    /\ pair = NoPair

InitSvc ==
    /\ rr = IdleRerank
    /\ em = IdleEmbed
    /\ qp = IdlePlan
    /\ ck = [key \in {StateKey(k) : k \in SyncConnectors} |-> <<>>]
    /\ sy = [fs |-> [f \in Range(WatchedFiles) |-> 1], inbox |-> 1, changes |-> 0,
             runs |-> 0, lastSaved |-> [k \in SyncConnectors |-> <<>>],
             run |-> [k \in SyncConnectors |-> IdleSync]]

Init ==
    InitIngest /\ InitRetr /\ InitMM /\ InitQueue /\ InitConn /\ InitSvc /\ kvUp = TRUE

NextIngest ==
    \/ \E c \in DOMAIN call : \E p \in Payloads : ProcStart(c, p)
    \/ \E c \in DOMAIN call : Upload(c)
    \/ \E c \in DOMAIN call : Extract(c)
    \/ \E c \in DOMAIN call : SimhashScan(c)
    \/ \E c \in DOMAIN call : SimhashSet(c)
    \/ \E c \in DOMAIN call : ImageEmbed(c)
    \/ \E c \in DOMAIN call : PhashScan(c)
    \/ \E c \in DOMAIN call : PhashSet(c)
    \/ \E c \in DOMAIN call : EmbedPage(c)
    \/ \E c \in DOMAIN call : ExtraBlock(c)
    \/ \E c \in DOMAIN call : TxRun(c)
    \/ \E c \in DOMAIN call : TxCommit(c)
    \/ \E c \in DOMAIN call : PersistEmbed(c)
    \/ \E c \in DOMAIN call : SetBlockVector(c)
    \/ \E c \in DOMAIN call : UpsertDocuments(c)
    \/ \E c \in DOMAIN call : UpsertImages(c)
    \/ \E c \in DOMAIN call : IngestEmail(c)
    \/ \E c \in DOMAIN call : UpsertImage(c)
    \/ \E c \in DOMAIN call : UpsertTranscripts(c)
    \/ \E c \in DOMAIN call : UpsertAudio(c)
    \/ \E c \in DOMAIN call : IngestEntities(c)
    \/ \E c \in DOMAIN call : ProcFail(c)
    \/ \E c \in DOMAIN call : ProcReturn(c)
    \/ \E c \in DOMAIN call : ProcRaise(c)

\* the ingestion pipeline: process() calls, one after another
Spec == Init /\ [][NextIngest]_vars

NextRetr ==
    \/ \E c \in DOMAIN rq : \E q \in Queries, k \in TopKs : retrieve(c, q, k)
    \/ \E c \in DOMAIN rq : CacheGet(c)
    \/ \E c \in DOMAIN rq : Fanout(c)
    \/ \E c \in DOMAIN rq : entity_expand(c)
    \/ \E c \in DOMAIN rq : Rerank(c)
    \/ \E c \in DOMAIN rq : CacheSet(c)
    \/ \E c \in DOMAIN rq : CacheSetReply(c)
    \/ \E c \in DOMAIN rq : RetrieveReturn(c)
    \/ \E key \in CacheKeys : Expire(key)
    \/ \E c \in DOMAIN rq : CacheGetRaises(c)
    \/ \E c \in DOMAIN rq : CacheSetRaises(c)
    \/ \E c \in DOMAIN rq : FanoutRaises(c)
    \/ \E c \in DOMAIN rq : ExpandRaises(c)
    \/ \E c \in DOMAIN rq : RerankRaises(c)
    \/ \E c \in DOMAIN rq : Cancel(c)
    \/ \E c \in DOMAIN rq : RetrieveRaise(c)
    \/ KvOutage
    \/ KvRecover

SpecRetr == Init /\ [][NextRetr]_vars

NextMM ==
    \/ \E c \in MMCallers : \E name \in ModelNames : get_or_load(c, name)
    \/ \E c \in MMCallers : LockAcquired(c)
    \/ \E c \in MMCallers : wait_for_recovery(c)
    \/ \E c \in MMCallers : SleepDone(c)
    \/ \E c \in MMCallers : LoaderReturn(c)
    \/ \E c \in MMCallers : LoaderRaise(c)
    \/ \E name \in ModelNames : unload(name)
    \/ \E snap \in Snapshots : MemoryChange(snap)

SpecMM == Init /\ [][NextMM]_vars

NextQueue ==
    \/ \E payload \in QueueJobs : Enqueue(payload)
    \/ Dequeue
    \/ DequeueRaises
    \/ WorkerSleepDone
    \/ WorkerProcess
    \/ WorkerIngestStep
    \/ WorkerProcessDone
    \/ WorkerProcessFailed
    \/ KvOutage
    \/ KvRecover

\* the worker process: producers enqueue, one _queue_worker task consumes
SpecQueue == Init /\ [][NextQueue]_vars

\* the event loop resumes the worker task whenever what it awaits is done,
\* and every process() call ends, by a return or by an exception
FairSpecQueue ==
    /\ SpecQueue
    /\ WF_vars(Dequeue) /\ WF_vars(WorkerSleepDone) /\ WF_vars(WorkerProcess)
    /\ []<>(wk.pc # "processing")

\* the event loop runs every task that is ready and fires every timer
FairSpecMM ==
    SpecMM /\ \A c \in MMCallers :
                 WF_vars(wait_for_recovery(c)) /\ WF_vars(SleepDone(c)) /\ WF_vars(LockAcquired(c))

NextConn ==
    \/ \E k \in Connectors : DirectRunStart(k)
    \/ \E k \in Connectors : Tick(k)
    \/ \E k \in Connectors, kind \in RunKinds : RunEnqueue(k, kind)
    \/ \E k \in Connectors, kind \in RunKinds : RunEnqueueRaises(k, kind)
    \/ \E k \in Connectors, kind \in RunKinds : RunDone(k, kind)
    \/ KvOutage
    \/ KvRecover

SpecConn == Init /\ [][NextConn]_vars

NextRerank ==
    \/ \E n \in 0..MaxPairs, pattern \in PassagePatterns : RerankCall(RerankPairs(n, pattern))
    \/ RerankLoad
    \/ RerankLoadRaises
    \/ ScoreBatch
    \/ ScoreBatchRaises
    \/ FallbackLoad
    \/ FallbackScore
    \/ FallbackScoreRaises
    \/ Zip

SpecRerank == Init /\ [][NextRerank]_vars

NextEmbed ==
    \/ \E n \in 0..MaxTexts : EmbedCall(n)
    \/ EmbedLoad
    \/ EmbedLoadRaises
    \/ EmbedBatch
    \/ EmbedBatchRaises
    \/ EmbedReturn
    \/ \E snap \in Snapshots : MemoryChange(snap)

SpecEmbed == Init /\ [][NextEmbed]_vars

NextPlan ==
    \/ \E query \in PlannerQueries, now \in Nows : plan(query, now)
    \/ \E query \in PlannerQueries : planRaises(query)

SpecPlan == Init /\ [][NextPlan]_vars

InitPair ==
    /\ InitIngestFor(PairCallers) /\ InitRetr /\ InitMM /\ InitQueue /\ InitConn
    /\ InitSvc /\ kvUp = TRUE

NextPair ==
    \/ \E p \in PairPayloads : PairFirst(p)
    \/ \E p \in PairPayloads : PairSecond(p)
    \/ \E c \in PairCallers : PairStep(c)
    \/ \E c \in PairCallers : PairReturn(c)
    \/ \E c \in PairCallers : PairRaise(c)

SpecPair == InitPair /\ [][NextPair]_vars

NextObjects ==
    \/ \E p \in ObjectPayloads : PairFirst(p)
    \/ PairStep("w1")
    \/ PairReturn("w1")
    \/ PairRaise("w1")

SpecObjects == InitPair /\ [][NextObjects]_vars

NextVersions ==
    \/ \E p \in VersionPayloads : PairFirst(p)
    \/ \E p \in VersionPayloads : VersionSecond(p)
    \/ PairStep("w1")
    \/ PairReturn("w1")
    \/ PairRaise("w1")

SpecVersions == InitPair /\ [][NextVersions]_vars

NextMail ==
    \/ \E p \in MailPayloads : MailFirst(p)
    \/ \E p \in MailPayloads : MailSecond(p)
    \/ PairStep("w1")
    \/ PairReturn("w1")
    \/ PairRaise("w1")

SpecMail == InitPair /\ [][NextMail]_vars

NextPages ==
    \/ \E p \in PagePayloads : MailFirst(p)
    \/ PairStep("w1")
    \/ PairReturn("w1")
    \/ PairRaise("w1")

SpecPages == InitPair /\ [][NextPages]_vars

NextRel ==
    \/ \E p \in RelPayloads : MailFirst(p)
    \/ \E p \in RelPayloads : MailSecond(p)
    \/ PairStep("w1")
    \/ PairReturn("w1")
    \/ PairRaise("w1")

\* one or two process() calls, one after the other, on documents that declare
\* relationships
SpecRel == InitPair /\ [][NextRel]_vars

NextSync ==
    \/ \E k \in SyncConnectors : SyncStart(k)
    \/ \E k \in SyncConnectors : SyncStartRaises(k)
    \/ \E k \in SyncConnectors : SyncNext(k)
    \/ \E k \in SyncConnectors : SyncSearch(k)
    \/ \E k \in SyncConnectors : DriveGetToken(k)
    \/ \E k \in SyncConnectors : DriveList(k)
    \/ \E k \in SyncConnectors : SyncEnqueue(k)
    \/ \E k \in SyncConnectors : SyncEnqueueRaises(k)
    \/ \E k \in SyncConnectors : SyncRaises(k)
    \/ \E k \in SyncConnectors : SyncSave(k)
    \/ \E k \in SyncConnectors : SyncSaveRaises(k)
    \/ \E k \in SyncConnectors : ExpireCheckpoint(k)
    \/ \E f \in Range(WatchedFiles) : Touch(f)
    \/ Deliver
    \/ DriveChange
    \/ KvOutage
    \/ KvRecover

\* the scheduler runs the connectors, one run at a time, while files, mails
\* and drive changes arrive, the key-value store fails and recovers, and keys
\* reach their time to live
SpecSync == Init /\ [][NextSync]_vars

----------------------------------------------------------------------------
\* Claims about the ingestion pipeline

Callers == DOMAIN call
AfterBundlePcs == Range(Stages)

NearDuplicateEdgesBetween(a, b) ==
    {e \in gEdges : /\ e[1] = "NEAR_DUPLICATE"
                    /\ \/ (e[2] = Node("File", a) /\ e[3] = Node("File", b))
                       \/ (e[2] = Node("File", b) /\ e[3] = Node("File", a))}

\* the whole bundle of a call is in the graph: the Document, every File, Page
\* and Block node, and an edge of the declared type per declared relationship
BundleInGraph(l) ==
    /\ Node("Document", l.payload[1].document.doc_id) \in gNodes
    /\ \A r \in Range(l.file_records) : Node("File", r.sha256) \in gNodes
    /\ \A pg \in Range(l.pages) : Node("Page", pg.page_id) \in gNodes
    /\ \A b \in Range(l.blocks) : Node("Block", b.block_id) \in gNodes
    /\ \A rel \in Range(l.payload[1].relationships) :
          Edge(rel.type, Node("Document", rel.source_id), Node("Document", rel.target_id))
              \in gEdges

\* C1: once ingest_document_bundle has ended in a process() call, by commit or
\* by a failure inside its transaction, the graph holds the whole bundle
\* (Document, Files, Pages, Blocks, every declared relationship edge) or
\* nothing that the bundle wrote.
C1_BundleAllOrNothing ==
    \A c \in Callers :
        /\ (L(c).pc = "failed" /\ L(c).failedAt = "bundle") =>
              (BundleInGraph(L(c)) \/ Graph = hist.atBundle[c])
        /\ (L(c).pc \in AfterBundlePcs) => BundleInGraph(L(c))

\* C3: file A is ingested (File node and fingerprint entry present), file B,
\* not in the graph before, carries one text fingerprint; when B's process()
\* call is about to return there is exactly one NEAR_DUPLICATE edge between
\* the two File nodes if the fingerprints are within Hamming distance 3 and
\* none if they are 4 or more apart.
C3_NearDuplicateEdgeOnSecondIngest ==
    \A c \in Callers : L(c).pc = "done" =>
        \A fb \in Range(P(c).files) : \A a \in hist.atStart[c].kv["dedupe:simhash"] :
            LET shaB == compute_sha256(fb.content)
                fps == {compute_simhash(t) : t \in Range(HashedTexts(fb))}
            IN (/\ a[1] # shaB
                /\ Node("File", a[1]) \in hist.atStart[c].nodes
                /\ Node("File", shaB) \notin hist.atStart[c].nodes
                /\ Cardinality(fps) = 1)
               => LET fp == CHOOSE x \in fps : TRUE
                      n == Cardinality(NearDuplicateEdgesBetween(a[1], shaB))
                  IN IF hamming_distance(fp, ParseDec(a[2])) <= 3 THEN n = 1 ELSE n = 0

\* C4: when process(p) has just run to its end and the call before it was a
\* completed process(p) of the same payload, the graph nodes, the graph edges
\* and the vector rows are those the first of the two calls left.
C4_ReingestIdempotent ==
    \A c \in Callers :
        (L(c).pc = "done" /\ hist.prev # <<>> /\ hist.prev[1].payload = P(c)) =>
            /\ gNodes = hist.prev[1].after.nodes
            /\ gEdges = hist.prev[1].after.edges
            /\ vectors = hist.prev[1].after.vectors

\* C5: in every state, every row of the documents vector table has the
\* block_id of a Block node of the graph as its id.
C5_VectorRowsHaveBlocks ==
    \A v \in vectors : v.table = "documents" => Node("Block", v.id) \in gNodes

\* C6: a process() call that failed after the bundle commit and before the
\* first vector upsert leaves the Document and all Block nodes of its bundle
\* in the graph and the vector tables as they were when the call started.
C6_FailureBeforeUpsertLeavesNoRows ==
    \A c \in Callers :
        (L(c).pc = "failed" /\ L(c).failedAt \in {"persist_embed", "set_block_vector"}) =>
            /\ Node("Document", P(c).document.doc_id) \in gNodes
            /\ \A b \in Range(L(c).blocks) : Node("Block", b.block_id) \in gNodes
            /\ vectors = hist.atStart[c].vectors

\* C6 witness: such a failure, with blocks in the bundle and rows to upsert
C6_Witness ==
    \E c \in Callers :
        /\ L(c).pc = "failed" /\ L(c).failedAt = "set_block_vector"
        /\ L(c).blocks # <<>>
        /\ TextRecords(L(c).block_vectors) # <<>>
        /\ Node("Block", L(c).blocks[1].block_id) \notin hist.atStart[c].nodes

\* C7: between process() calls, every Block node has exactly one CHILD_OF edge
\* to a Page node, or is tied to a Transcript node.
C7_BlockHasOnePage ==
    (\A c \in Callers : L(c).pc = "idle") =>
        \A n \in gNodes : n[1] = "Block" =>
            \/ Cardinality({e \in gEdges : e[1] = "CHILD_OF" /\ e[2] = n
                                           /\ e[3][1] = "Page"}) = 1
            \/ \E e \in gEdges : \/ (e[2] = n /\ e[3][1] = "Transcript")
                                 \/ (e[3] = n /\ e[2][1] = "Transcript")

----------------------------------------------------------------------------
\* Claims about the retrieval orchestrator

BackendCalls == {"dense", "bm25", "entity", "traverse_related"}

\* C2: when a retrieve(query, top_k) call returns and an earlier call with the
\* same query and top_k returned before it started, with the cache key not
\* expired in between, the two returned lists are equal and the later call
\* made no call to a dense, lexical or entity backend; this includes an
\* earlier call that returned the empty list.
C2_SecondCallServedFromCache ==
    \A c \in DOMAIN rq :
        (rq[c].pc = "done" /\ rq[c].prev # <<>>) =>
            /\ rq[c].result = rq[c].prev[1].result
            /\ rq[c].calls \cap BackendCalls = {}

----------------------------------------------------------------------------
\* Claims about the model registry and the memory guard

InFlight(name) == {c \in MMCallers : mm[c].pc # "idle" /\ mm[c].name = name}

\* C8: for a name that was never unloaded and whose loader never failed,
\* however the get_or_load calls for it interleave, the loader is invoked at
\* most once, and as soon as one call has returned it was invoked exactly
\* once and every call has returned the one handle the registry caches.
C8_LoaderInvokedOnce ==
    \A name \in ModelNames \ (mhist.unloaded \cup mhist.failed) :
        /\ mhist.loads[name] <= 1
        /\ mhist.returned[name] # {} =>
              /\ mhist.loads[name] = 1
              /\ mhist.returned[name] = {Handle(name, 1)}
              /\ models[name] = <<Handle(name, 1)>>

\* two calls for one name overlapped (one queued on the lock) and both returned
C8_Witness ==
    \E name \in ModelNames \ (mhist.unloaded \cup mhist.failed) :
        /\ name \in mhist.contended
        /\ InFlight(name) = {}
        /\ mhist.returned[name] # {}

\* C9: a loader is running only in a call whose last is_under_pressure()
\* sample was false and was taken on a snapshot without pressure, at the
\* moment wait_for_recovery() returned; and when pressure clears for good,
\* every call waiting in wait_for_recovery() reaches its loader.
C9_LoaderOnlyAfterRecovery ==
    /\ [](\A c \in MMCallers :
            mm[c].pc = "load" =>
                /\ mm[c].sample = <<FALSE>>
                /\ ~is_under_pressure(mm[c].loadMem[1]))
    /\ (<>[](~is_under_pressure(memory))) =>
          \A c \in MMCallers : (mm[c].pc \in {"wait", "sleep"}) ~> (mm[c].pc = "load")

\* a call that found pressure, slept, and then went on to its loader
C9_Witness ==
    \E c \in MMCallers : mm[c].pc = "load" /\ mm[c].slept

----------------------------------------------------------------------------
\* Claims about the ingest queue worker

\* the payloads that can still be read from a list of the key-value store
Retrievable == UNION {{json_loads(kvList[k][i]) : i \in 1..Len(kvList[k])} : k \in DOMAIN kvList}

\* C10: once process() has raised for a dequeued payload and the worker has
\* handled the exception, the payload can still be read from a list of the
\* key-value store (a dead-letter list, or the queue itself).
C10_FailedPayloadKept ==
    \A i \in 1..Len(whist.failed) : whist.failed[i] \in Retrievable

\* C11: while the key-value store stays available, once process() has raised
\* for a dequeued job the worker is still consuming: the n-th enqueued
\* payload is eventually the n-th payload passed to process(), for every
\* payload in the queue at the failure or enqueued after it.
C11_WorkerContinuesAfterFailure ==
    ([]kvUp) =>
        \A n \in 1..MaxEnqueued :
            (whist.failed # <<>> /\ whist.enqueued >= n) ~> (Len(whist.passed) >= n)

\* a payload enqueued after a failure has been passed to process()
C11_Witness ==
    /\ whist.failed # <<>>
    /\ whist.late >= 1
    /\ Len(whist.passed) = whist.enqueued
    /\ wk.pc = "processing"

\* C13: an outage of the key-value store never ends the worker loop: whatever
\* dequeue does while the store is away, the worker task is still at a
\* position of its "while True" loop (dequeuing, sleeping or processing).
C13_WorkerSurvivesOutage ==
    wk.pc \in {"dequeue", "sleep", "process", "processing"}

\* C12: no retrieve() call ends with the exception of the key-value store:
\* when cache.get or cache.set raises, the call goes on as an uncached call
\* and returns its list.
C12_CacheOutageDegrades ==
    \A c \in DOMAIN rq : ~(rq[c].pc = "raised" /\ rq[c].error = "kv")

\* C14: a retrieve() call writes its cache entry at most once, and then with
\* the list that _mmr produced; a call that ends because it was cancelled at
\* an await, or because the fan-out, the entity expansion or the rerank
\* raised, has written nothing to the cache.
C14_CacheWrittenOnceAtEnd ==
    \A c \in DOMAIN rq :
        /\ rq[c].writes <= 1
        /\ rq[c].writes = 1 => rq[c].wrote = <<rq[c].result>>
        /\ (rq[c].pc = "raised" /\ rq[c].error \in {"cancelled", "backend"}) =>
              rq[c].writes = 0

\* C14, amended: as above, for a call cancelled at an await before the SET
\* command of cache.set is sent (cache lookup, fan-out, entity expansion,
\* rerank, cache.set not yet sent); a call cancelled while it waits for the
\* reply of SET has written the final list, once.
C14_CacheWrittenOnceAtEnd_Amended ==
    \A c \in DOMAIN rq :
        /\ rq[c].writes <= 1
        /\ rq[c].writes = 1 =>
              /\ rq[c].wrote = <<rq[c].result>>
              /\ rq[c].pc \in {"cache_set_reply", "done"}
                    \/ (rq[c].pc = "raised" /\ rq[c].at = "cache_set_reply")
        /\ (rq[c].pc = "raised" /\ rq[c].error \in {"cancelled", "backend"}
               /\ rq[c].at # "cache_set_reply") =>
              rq[c].writes = 0

\* the rerank step failed, or the call was cancelled in it, after the fan-out
\* had answered with hits
C14_Witness ==
    \E c \in DOMAIN rq :
        /\ rq[c].pc = "raised"
        /\ rq[c].at = "rerank"
        /\ rq[c].dense # <<>>
        /\ rq[c].writes = 0

\* C15: no two runs of one connector's sync() are in progress at once, the
\* run that start() creates directly and the runs the scheduler starts at
\* interval ticks counted together.
C15_OneRunPerConnector ==
    \A k \in Connectors :
        (IF cn[k].direct = "running" THEN 1 ELSE 0) + cn[k].job <= 1

----------------------------------------------------------------------------
\* Claims about concurrent and repeated process() calls

PairDone == pair.second # <<>> /\ pair.ended = PairCallers /\ ~pair.failed

\* the dedup entries a returned call on payload p leaves for its files
SimhashEntries(p) ==
    {<<FileRecord(p.document, f).sha256,
       DecDigits(compute_simhash(HashedTexts(f)[Len(HashedTexts(f))]))>> :
        f \in {x \in Range(p.files) : HashedTexts(x) # <<>>}}

PhashEntries(p) ==
    {<<FileRecord(p.document, f).sha256, f.phash>> :
        f \in {x \in Range(p.files) : Branch(x) = "image" /\ x.phash # <<>>}}

\* the stores after the two payloads are processed one after the other
Sequential(S, p1, p2) == process_sequential(process_sequential(S, p1), p2)

OnlyNearDuplicateMissing(T) ==
    /\ gNodes = T.nodes
    /\ gProps = T.props
    /\ gBlockVector = T.bv
    /\ gEdges \subseteq T.edges
    /\ \A e \in T.edges \ gEdges : e[1] = "NEAR_DUPLICATE"

\* a call that ran alone and returned left the stores process_sequential computes
process_sequential_agrees ==
    \A c \in DOMAIN call :
        (L(c).pc = "done" /\ pair.second = <<>> /\ pair.first # <<>>) =>
            Stores = process_sequential(pair.base[1], P(c))

DocumentProps(doc_id) ==
    (CHOOSE e \in gProps : e[1] = Node("Document", doc_id))[2]

\* C17: when two payloads of one doc_id with different versions have been
\* processed one after the other, the graph is the one the other order leaves,
\* and the Document node carries the attributes of the newer version.
C17_VersionOrderIndependent ==
    (L("w1").pc = "done" /\ pair.second # <<>> /\ ~pair.failed) =>
        LET p1 == pair.first[1]
            p2 == pair.second[1]
            T == Sequential(pair.base[1], p2, p1)
            newer == IF p1.document.version > p2.document.version THEN p1 ELSE p2
        IN  /\ gNodes = T.nodes /\ gEdges = T.edges /\ gProps = T.props
            /\ gBlockVector = T.bv
            /\ DocumentProps(p1.document.doc_id) = newer.document

\* C18: when ingest_document_bundle raised in a process() call, the graph
\* (nodes, edges, NEAR_DUPLICATE edges included) and the vector tables are as
\* they were when the call started.
C18_BundleFailureLeavesNothing ==
    \A c \in DOMAIN call :
        (L(c).pc = "failed" /\ L(c).failedAt = "bundle") =>
            /\ gNodes = hist.atStart[c].nodes
            /\ gEdges = hist.atStart[c].edges
            /\ vectors = hist.atStart[c].vectors

WriteRank(kind) == CASE kind = "bundle" -> 1 [] kind = "vector" -> 2 [] kind = "facet" -> 3

\* C19: within one process() call the bundle transaction commits before any
\* upsert into a vector table, and every upsert into a vector table is issued
\* before any side-facet write (Email, Image, Audio, Transcript, entities).
C19_PersistenceOrder ==
    \A c \in DOMAIN call :
        LET log == L(c).log
        IN  /\ \A i, j \in 1..Len(log) : i < j => WriteRank(log[i]) <= WriteRank(log[j])
            /\ log # <<>> => log[1] = "bundle"

\* a call that has written the bundle, vector rows and a side facet
C19_Witness ==
    \E c \in DOMAIN call :
        /\ L(c).pc = "done"
        /\ {"bundle", "vector", "facet"} \subseteq Range(L(c).log)

FileNodes == {e \in gProps : e[1][1] = "File"}

\* C20: after any sequence of process() calls, every File node's uri names an
\* object of the object store whose bytes hash to the node's sha256.
C20_FileBytesMatchSha ==
    (\A c \in DOMAIN call : L(c).pc = "idle") =>
        \A e \in FileNodes :
            \E o \in objects :
                /\ "minio/bucket/" \o o[1] = e[2].uri
                /\ compute_sha256(o[2]) = e[2].sha256

----------------------------------------------------------------------------
\* Claims about merge, rerank and diversification

\* C21: an item without doc_id, message_id, page_id, block_id and id is dropped
\* by _merge_results: no merged entry and no returned RetrievedDocument has a
\* doc_id of None.
C21_NoNullDocId ==
    \A c \in DOMAIN rq :
        /\ rq[c].pc = "rerank" =>
              \A e \in Range(merge_results(rq[c].dense, rq[c].bm25, rq[c].related)) :
                  Truthy(e.doc_id)
        /\ \A d \in Range(rq[c].reranked) \cup Range(rq[c].result) : Truthy(d.doc_id)

\* the channel scores of doc_id, read off the answers of the three channels:
\* the raw score of every dense and lexical hit, 0.1 for every expansion hit
\* (a dense hit without doc_id and id belongs to no doc_id)
DenseKey(item) == PyOr(Get(item, "doc_id", None), Get(item, "id", None))

LexicalKey(record) ==
    LET n == record.node
    IN  PyOr(Get(n, "doc_id", None), PyOr(Get(n, "message_id", None),
        PyOr(Get(n, "page_id", None), PyOr(Get(n, "block_id", None), Get(n, "id", None)))))

RelatedKey(record) ==
    LET n == PyNode(record)[1]
    IN  PyOr(Get(n, "doc_id", None), PyOr(Get(n, "message_id", None), Get(n, "id", None)))

ChannelHits(l, doc_id) ==
    [dense |-> {i \in 1..Len(l.dense) :
                  Truthy(DenseKey(l.dense[i])) /\ DenseKey(l.dense[i]) = doc_id},
     bm25 |-> {i \in 1..Len(l.bm25) :
                  "node" \in DOMAIN l.bm25[i] /\ LexicalKey(l.bm25[i]) = doc_id},
     related |-> {i \in 1..Len(l.related) :
                  PyNode(l.related[i]) # <<>> /\ RelatedKey(l.related[i]) = doc_id}]

RECURSIVE SumScores(_, _)
SumScores(hits, idx) ==
    IF idx = {} THEN 0
    ELSE LET i == CHOOSE x \in idx : TRUE
         IN  Get(hits[i], "score", 0) + SumScores(hits, idx \ {i})

ChannelSum(l, doc_id) ==
    LET h == ChannelHits(l, doc_id)
    IN  SumScores(l.dense, h.dense) + SumScores(l.bm25, h.bm25)
            + 100 * Cardinality(h.related)

ChannelCount(l, doc_id) ==
    LET h == ChannelHits(l, doc_id)
    IN  Cardinality(h.dense) + Cardinality(h.bm25) + Cardinality(h.related)

\* C22: the score of every reranked document is 0.7 times its rerank score plus
\* 0.3 times the mean of the channel scores of its doc_id (in units of 1/60000,
\* multiplied by the number of channel scores).
C22_CombinedScore ==
    \A c \in DOMAIN rq :
        rq[c].pc = "cache_set" =>
            \A d \in Range(rq[c].reranked) :
                LET n == ChannelCount(rq[c], d.doc_id)
                IN  /\ n >= 1
                    /\ d.score * n =
                          42 * ModelScore(rq[c].query, d.text) * n
                              + 18 * ChannelSum(rq[c], d.doc_id)

\* rerank 0.95 with channel scores 0.9 and 0.7 gives 0.905
C22_Witness ==
    \E c \in DOMAIN rq :
        /\ rq[c].pc = "cache_set"
        /\ \E d \in Range(rq[c].reranked) :
              /\ ChannelCount(rq[c], d.doc_id) = 2
              /\ ChannelSum(rq[c], d.doc_id) = 1600
              /\ d.score = 54300

\* 0.7 * score - 0.3 * (largest similarity to a chosen document), in units of
\* 1/600000
Marginal(d, chosen) ==
    LET sims == {cosine_similarity(d.text, x.text) : x \in chosen}
    IN  7 * d.score - 180 * (CHOOSE m \in sims : \A t \in sims : m >= t)

\* the position of a document in the reranked list
Rank(docs, d) == CHOOSE i \in 1..Len(docs) : docs[i] = d

\* out is what the claim says _mmr returns for docs and top_k
MmrAsClaimed(docs, out, top_k) ==
    /\ Len(out) = (IF top_k <= Len(docs) THEN top_k ELSE Len(docs))
    /\ \A i, j \in 1..Len(out) : i # j => out[i] # out[j]
    /\ out # <<>> => \A d \in Range(docs) : out[1].score >= d.score
    /\ \A n \in 2..Len(out) :
          LET chosen == {out[i] : i \in 1..(n - 1)}
              rest == Range(docs) \ chosen
          IN  /\ out[n] \in rest
              /\ \A d \in rest :
                    \/ Marginal(out[n], chosen) > Marginal(d, chosen)
                    \/ /\ Marginal(out[n], chosen) = Marginal(d, chosen)
                       /\ Rank(docs, out[n]) <= Rank(docs, d)

C24_SortedStable ==
    rr.pc = "done" =>
        \A i, j \in 1..Len(rr.results) :
            i < j => \/ rr.results[i].score > rr.results[j].score
                     \/ /\ rr.results[i].score = rr.results[j].score
                        /\ rr.results[i].doc_id < rr.results[j].doc_id

\* a returned list in which two neighbours have one score and come from
\* different batches
C24_Witness ==
    /\ rr.pc = "done"
    /\ \E i \in 1..(Len(rr.results) - 1) :
          /\ rr.results[i].score = rr.results[i + 1].score
          /\ rr.results[i].doc_id <= RerankBatchSize
          /\ rr.results[i + 1].doc_id > RerankBatchSize

\* the scoring attempts of the call that raised
Failures == {k \in 1..Len(rr.log) : ~rr.log[k].ok}

\* C25: once the primary model raised on a batch, that batch and every later
\* one is scored by the fallback model, the registry is asked for the fallback
\* once in the call, and a call in which the fallback raised does not return.
C25_FallbackOnce ==
    /\ \A k \in Failures : \A j \in (k + 1)..Len(rr.log) :
          rr.log[j].model = FallbackReranker
    /\ rr.loads <= 1
    /\ rr.pc = "done" =>
          \A k \in Failures : rr.log[k].model = PrimaryReranker

\* the size the claim gives the k-th batch of a call under lasting pressure
SizeUnderPressure(k) == IF k = 1 THEN 8 ELSE IF k = 2 THEN 4 ELSE 2

\* C26: in an embed() call whose every guard check reported pressure the
\* batches handed to the model hold 8, 4, 2, 2, ... texts, the batch at the end
\* of the input alone may hold fewer; the limit is never below 2 and never
\* larger than it was.
C26_BatchHalving ==
    /\ (\A k \in 1..Len(em.checks) : em.checks[k]) =>
          \A k \in 1..Len(em.sizes) :
              IF em.sizes[k].last
              THEN em.sizes[k].n >= 1 /\ em.sizes[k].n <= SizeUnderPressure(k)
              ELSE em.sizes[k].n = SizeUnderPressure(k)
    /\ \A k \in 1..Len(em.limits) :
          /\ em.limits[k] >= 2
          /\ k > 1 => em.limits[k] <= em.limits[k - 1]

\* a finished call under lasting pressure that handed the model five batches
\* or more
C26_Witness ==
    /\ em.pc = "done"
    /\ Len(em.sizes) >= 5
    /\ \A k \in 1..Len(em.checks) : em.checks[k]

\* the extractor of a file gave no text at all
NothingExtracted(f) == \A k \in 1..Len(PageTexts(f)) : ~Truthy(PageTexts(f)[k])

\* C27: no process() call raises out of the extraction of a file, and a file
\* whose extraction gave nothing has its File and its Page in the bundle and
\* no Block on that page.
C27_ExtractionFailureTolerated ==
    \A c \in DOMAIN call :
        /\ ~(L(c).pc = "failed" /\ L(c).failedAt = "extract")
        /\ L(c).pc = "bundle" =>
              LET files == L(c).payload[1].files
                  doc_id == L(c).payload[1].document.doc_id
              IN  \A i \in 1..Len(files) :
                      NothingExtracted(files[i]) =>
                          /\ i <= Len(L(c).file_records)
                          /\ i <= Len(L(c).pages)
                          /\ L(c).pages[i].page_id = PageId(doc_id, i - 1)
                          /\ \A b \in Range(L(c).blocks) :
                                b.page_id # PageId(doc_id, i - 1)

\* the payloads of the calls so far, once every call has returned
ReturnedPayloads ==
    IF /\ \A c \in PairCallers : L(c).pc = "idle"
       /\ pair.ended = {"w1"} /\ ~pair.failed
    THEN Range(pair.first) \cup Range(pair.second)
    ELSE {}

\* C28: after process() returned for a payload with an email, the graph holds
\* Email-ATTACHMENT->Document, Email-SENT_BY->Person of the sender and
\* Email-RECEIVED_BY->Person of every recipient, the sender included when it
\* is listed among the recipients.
C28_EmailEdges ==
    \A p \in {q \in ReturnedPayloads : q.email # <<>>} :
        LET mail == p.email[1]
            e == Node("Email", mail.message_id)
        IN  /\ Edge("ATTACHMENT", e, Node("Document", p.document.doc_id)) \in gEdges
            /\ Truthy(mail.sender) =>
                  Edge("SENT_BY", e, Node("Person", person_id(mail.sender))) \in gEdges
            /\ \A k \in 1..Len(mail.recipients) :
                  Truthy(mail.recipients[k]) =>
                      Edge("RECEIVED_BY", e,
                           Node("Person", person_id(mail.recipients[k]))) \in gEdges

\* the identifiers process() derives a person ID from
Identifiers(p) ==
    {x \in Range(p.entities.people) : Truthy(x)}
        \cup (IF p.email = <<>> THEN {}
              ELSE {x \in {p.email[1].sender} \cup Range(p.email[1].recipients) : Truthy(x)})

Ingested == UNION {Identifiers(p) : p \in ReturnedPayloads}

PersonNodes == {n \in gNodes : n[1] = "Person"}

\* the identifiers of the model, each set the letter-case variants of one
\* identifier ("WEISS@EXAMPLE.COM" is "Weiß@example.com".upper())
CaseVariants ==
    {{"Alice@Example.com", "alice@example.com", "ALICE@EXAMPLE.COM"}, {"bob@example.com"},
     {"Weiß@example.com", "WEISS@EXAMPLE.COM"}}

AsciiCaseVariants ==
    {{"Alice@Example.com", "alice@example.com", "ALICE@EXAMPLE.COM"}, {"bob@example.com"},
     {"Weiß@example.com"}, {"WEISS@EXAMPLE.COM"}}

C30_OnePagePerFile ==
    \A c \in DOMAIN call :
        L(c).pc = "bundle" =>
            /\ Len(L(c).pages) = Len(L(c).payload[1].files)
            /\ \A i \in 1..Len(L(c).pages) :
                  L(c).pages[i] =
                      [page_id |-> L(c).payload[1].document.doc_id \o "::page::" \o ToString(i - 1),
                       page_index |-> i - 1]

\* the bundle of a payload of four files, three of which gave no text
C30_Witness ==
    \E c \in DOMAIN call :
        /\ L(c).pc = "bundle"
        /\ L(c).payload[1] = pOdd
        /\ Len(L(c).pages) = 4

----------------------------------------------------------------------------
\* Claims about the query planner

\* C31: a plan whose intent is temporal has a time range and a time_range
\* filter.
C31_TemporalHasTimeRange ==
    (qp.pc = "done" /\ qp.plan[1].intent = "temporal") =>
        /\ qp.plan[1].time_range # <<>>
        /\ \E f \in qp.plan[1].filters : f[1] = "time_range"

\* the intent the claim gives a query that holds the words ws (lower case)
IntentOfWords(ws) ==
    IF ws \cap {"when", "schedule", "calendar", "date"} # {} THEN "temporal"
    ELSE IF ws \cap {"who", "person"} # {} THEN "entity"
    ELSE IF ws \cap {"compare", "analysis", "why", "how"} # {} THEN "analytical"
    ELSE "factual"

\* the words of the claim that the lowercased query contains, read off the
\* characters of the query
RECURSIVE Spelled(_)
Spelled(chars) == IF chars = <<>> THEN "" ELSE Head(chars) \o Spelled(Tail(chars))

ClaimWords(query) ==
    {Spelled(w) : w \in {x \in TemporalWords \cup EntityWords \cup AnalyticalWords :
                              Contains(QueryLower(query), x)}}

\* C32: the intent of a plan is temporal if the lowercased query contains
\* when, schedule, calendar or date, else entity if it contains who or person,
\* else analytical if it contains compare, analysis, why or how, else factual.
C32_IntentOrder ==
    qp.pc = "done" => qp.plan[1].intent = IntentOfWords(ClaimWords(qp.query))

\* the plan of a query that holds words of two groups: "Who" and "update"
C32_Witness ==
    /\ qp.pc = "done"
    /\ {"who", "date"} \subseteq ClaimWords(qp.query)
    /\ qp.plan[1].intent = "temporal"

----------------------------------------------------------------------------
\* Claims about the queue, the registry, the dedup hashes and the checkpoints

\* C33: the single worker passes the payloads to process() in the order of
\* their enqueueing and each of them once at most, a payload whose processing
\* failed included.
C33_FifoAtMostOnce ==
    /\ Len(whist.passed) <= Len(whist.order)
    /\ whist.passed = SubSeq(whist.order, 1, Len(whist.passed))

\* two payloads were passed to process() and the first of them failed
C33_Witness ==
    /\ Len(whist.passed) = 2
    /\ whist.passed[1] # whist.passed[2]
    /\ Len(whist.failed) >= 1
    /\ whist.failed[1].document.doc_id = whist.passed[1]

\* C34: after unload(name) has returned the registry holds no handle for name
\* until a get_or_load(name) call that started after the unload has finished
\* its load: a handle cached for an unloaded name was never stored by a call
\* that was already in flight when the unload ran.
C34_NoHandleAfterUnload ==
    \A name \in mhist.unloaded :
        models[name] # <<>> => name \notin mhist.lateStore

\* the step in which the loader of call c raises: the call ends without
\* having returned a handle
LoaderRaised(c) ==
    /\ mm[c].pc = "load"
    /\ mm'[c].pc = "idle"
    /\ mhist'.returned = mhist.returned

\* C38: when a loader raises inside get_or_load(name), nothing is cached for
\* name and the per-name lock is released: it is free, or it belongs to the
\* call that waited longest, and a waiting call that was handed the lock with
\* nothing cached invokes its own loader once memory pressure is over.
C38_LoaderFailureReleasesLock ==
    /\ [][\A c \in MMCallers :
            LoaderRaised(c) =>
                LET name == mm[c].name
                IN  /\ models'[name] = <<>>
                    /\ locks'[name] # c
                    /\ locks'[name] = IF waiters[name] = <<>> THEN Free
                                      ELSE Head(waiters[name])]_vars
    /\ (<>[](~is_under_pressure(memory))) =>
          \A c \in MMCallers :
              (/\ mm[c].pc = "blocked"
               /\ mm[c].name \in mhist.failed
               /\ locks[mm[c].name] = c
               /\ models[mm[c].name] = <<>>) ~> (mm[c].pc = "load")

\* two calls for one name overlapped, the loader of the first raised and the
\* call that waited is running its own loader
C38_Witness ==
    \E name \in (mhist.failed \cap mhist.contended) \ mhist.unloaded :
        /\ mhist.started = 2
        /\ mhist.loads[name] = 2
        /\ \E c \in MMCallers : mm[c].pc = "load" /\ mm[c].name = name

\* the sha256 fields of the two dedup hashes
DedupShas == {e[1] : e \in kvHash["dedupe:simhash"] \cup kvHash["dedupe:phash"]}

\* C35: whenever no process() call is in progress, every sha256 field of
\* dedupe:simhash and dedupe:phash is the sha256 of a File node of the graph,
\* also after a call whose bundle write or extraction failed.
C35_DedupEntriesHaveFiles ==
    (\A c \in DOMAIN call : L(c).pc \in {"idle", "done", "failed"}) =>
        \A sha \in DedupShas : Node("File", sha) \in gNodes

\* C39: for every declared relationship {source_id, target_id, type} of a
\* payload whose two endpoint documents are in the graph, the bundle write has
\* created an edge of the declared type from the source to the target.
C39_DeclaredRelationshipType ==
    \A c \in PairCallers :
        L(c).pc = "done" =>
            \A rel \in Range(P(c).relationships) :
                {Node("Document", rel.source_id), Node("Document", rel.target_id)}
                        \subseteq gNodes
                    => Edge(rel.type, Node("Document", rel.source_id),
                            Node("Document", rel.target_id)) \in gEdges

\* C40: for a candidate list of n >= 1 pairs rerank() returns n triples, one
\* per candidate with its id and passage, and the zip of a batch with its
\* scores never raises, a batch of a single candidate included.
C40_OneTriplePerCandidate ==
    /\ rr.pc = "raised" => rr.error # "TypeError"
    /\ (rr.pc = "done" /\ rr.pairs # <<>>) =>
          /\ Len(rr.results) = Len(rr.pairs)
          /\ \A i \in 1..Len(rr.pairs) :
                \E k \in 1..Len(rr.results) :
                    /\ rr.results[k].doc_id = rr.pairs[i].doc_id
                    /\ rr.results[k].passage = rr.pairs[i].passage

\* C36: in a connector run the checkpoint is saved only after every payload
\* the run yields has been enqueued; a run that failed midway has not
\* written the checkpoint; and the run after a failed run yields the items
\* the failed run left without an enqueue.
C36_CheckpointAfterEnqueue ==
    \A k \in SyncConnectors :
        LET r == sy.run[k]
        IN  /\ ~r.lateYield
            /\ r.pc = "save" => r.yielded = r.enqueued
            /\ r.pc = "failed" => r.saves = 0
            /\ (r.pc = "done" /\ r.prevFailed) => r.missed \subseteq Range(r.yielded)

\* C37: load_state(name) returns the checkpoint of the last save_state(name),
\* however long ago it was written.
C37_CheckpointDurable ==
    \A k \in SyncConnectors :
        (sy.run[k].loaded /\ sy.run[k].expected # <<>>) =>
            sy.run[k].state = sy.run[k].expected

====
